---------------------------- MODULE Spec2Model ----------------------------
(***************************************************************************)
(* Model of the interrupt core (int.c), the console driver (console.c) and *)
(* the parts of the 2048 game (game.c) that drive them.                    *)
(*                                                                         *)
(* One application thread (pc) is preempted by interrupt service routines  *)
(* (isr).  Interrupt gates clear the interrupt flag on entry, so an ISR    *)
(* runs to completion: while isr # "idle" the application does not step.   *)
(***************************************************************************)
EXTENDS Integers, Sequences, FiniteSets, TLC

(***************************************************************************)
(* Program constants                                                       *)
(***************************************************************************)
IRQ_TIMER == 32                 \* int.h: 0x20
IRQ_KBD == 33                   \* int.h: 0x21
INT_32 == 14                    \* int.h: 0xE, 32-bit interrupt gate
IDT_ENTS == 256                 \* x86/idt.h, used by IDT_LIIMIT
SizeofGatedp == 8               \* struct Gatedp: 16+16+8+4+1+2+1+16 bits
TIMER_RATE == 1193182           \* x86/timer_defines.h, used by timer_init
TIMER_SQUARE_WAVE == 54         \* x86/timer_defines.h: 0x36
COLOR_BOUND == 256              \* console.c: 0x100
VISIBLE == 0
HIDDEN == 1
FGND_LGRAY == 7                 \* initial cursor_color
FGND_BCYAN == 11                \* colour tick() selects
FGND_WHITE == 15                \* colour game_init selects for the board
KH_EXT == 224                   \* 0xE0: first byte of an augmented key
NoChar == -1                    \* readchar: "-1 : if no such character"

(***************************************************************************)
(* Bounds of the model.  The first six are program constants scaled down   *)
(* (source values: MAX_BUF_SZ 512, CONSOLE_WIDTH 80, CONSOLE_HEIGHT 25,    *)
(* TIME_Y 49, tick period 100, and 2^32 for the modulus of the uint32_t    *)
(* timer_ticks; TIME_X = CONSOLE_HEIGHT - 2 = 23 in the source).           *)
(***************************************************************************)
MAX_BUF_SZ == 2
CONSOLE_WIDTH == 4
CONSOLE_HEIGHT == 2
TIME_Y == 0
TicksPerSecond == 2
TickModulus == 8
MaxIrqs == 3                    \* interrupts delivered in Spec
MaxKbdIrqs == 4                 \* keyboard interrupts in SpecKbd, SpecSeq
MaxLiveIrqs == 3                \* keyboard interrupts in SpecKbdLive
MaxBoardOps == 2                \* calls of board functions in a run of SpecBoard
MaxPlayOps == 4                 \* steps of the game in a run of SpecPlay
MaxOps == 2                     \* console calls of the application in Spec
MaxConOps == 3                  \* console calls in SpecConsole
MaxScreenOps == 4               \* console calls in SpecScreen
MaxTimerIrqs == 9               \* timer interrupts in SpecTimer: the counter wraps

TIME_X == CONSOLE_HEIGHT - 2
CONSOLE_SZ == CONSOLE_WIDTH * CONSOLE_HEIGHT
IDT_LIIMIT == IDT_ENTS * (SizeofGatedp - 1)

Byte == 0..255
Lo8(x) == x % 256
Hi8(x) == (x \div 256) % 256

\* (char) of a byte and (uint8_t) of a char, two's complement
ToChar(b) == IF b % 256 >= 128 THEN (b % 256) - 256 ELSE b % 256
ToU8(c) == c % 256

(***************************************************************************)
(* Console driver (console.c).  A console state is the record              *)
(*   [cursor, cursor_hidden, cursor_color, vmem, crtc]                     *)
(* vmem is the memory-mapped grid, one byte per index: cell (row, col) has *)
(* its character at 2*(row*CONSOLE_WIDTH+col) and its attribute after it.  *)
(* crtc is the hardware cursor register pair.                              *)
(***************************************************************************)
\* mutant of console_scroll: the last row is not blanked
console_scrollKeepsLast(st) ==
    LET rowBytes == CONSOLE_WIDTH * 2
        endB == CONSOLE_SZ * 2
    IN [st EXCEPT !.vmem =
          [i \in 0..(endB - 1) |->
             IF i < endB - rowBytes THEN st.vmem[i + rowBytes] ELSE st.vmem[i]]]

\* mutant of console_scroll: the new last row gets the default colour
console_scrollDefaultColour(st) ==
    LET rowBytes == CONSOLE_WIDTH * 2
        endB == CONSOLE_SZ * 2
    IN [st EXCEPT !.vmem =
          [i \in 0..(endB - 1) |->
             IF i < endB - rowBytes THEN st.vmem[i + rowBytes]
             ELSE IF i % 2 = 0 THEN 32 ELSE FGND_LGRAY]]

console_scroll(st) ==
    LET rowBytes == CONSOLE_WIDTH * 2
        endB == CONSOLE_SZ * 2
        copied == [i \in 0..(endB - 1) |->
                     IF i < endB - rowBytes THEN st.vmem[i + rowBytes] ELSE st.vmem[i]]
        start == endB - rowBytes
    IN [st EXCEPT !.vmem =
          [i \in 0..(endB - 1) |->
             IF i < start THEN copied[i]
             ELSE IF (i - start) % 2 = 0 THEN 32 ELSE ToU8(st.cursor_color)]]

\* mutant of draw_char: the colour is not validated
draw_charAnyColour(st, row, col, ch, color) ==
    IF row < 0 \/ row >= CONSOLE_HEIGHT \/ col < 0 \/ col >= CONSOLE_WIDTH
    THEN st
    ELSE LET pos == row * CONSOLE_WIDTH + col
         IN [st EXCEPT !.vmem = [@ EXCEPT ![pos * 2] = ToU8(ch),
                                          ![pos * 2 + 1] = ToU8(color)]]

\* mutant of draw_char: the attribute byte is not written
draw_charNoAttribute(st, row, col, ch, color) ==
    IF row < 0 \/ row >= CONSOLE_HEIGHT \/ col < 0 \/ col >= CONSOLE_WIDTH
       \/ color >= COLOR_BOUND \/ color < 0
    THEN st
    ELSE LET pos == row * CONSOLE_WIDTH + col
         IN [st EXCEPT !.vmem = [@ EXCEPT ![pos * 2] = ToU8(ch)]]

draw_char(st, row, col, ch, color) ==
    IF row < 0 \/ row >= CONSOLE_HEIGHT \/ col < 0 \/ col >= CONSOLE_WIDTH
       \/ color >= COLOR_BOUND \/ color < 0
    THEN st
    ELSE LET pos == row * CONSOLE_WIDTH + col
         IN [st EXCEPT !.vmem = [@ EXCEPT ![pos * 2] = ToU8(ch),
                                          ![pos * 2 + 1] = ToU8(color)]]

get_char(st, row, col) == ToChar(st.vmem[(row * CONSOLE_WIDTH + col) * 2])

\* mutant of set_cursor: row and column stored crosswise
set_cursorSwapped(st, row, col) ==
    IF row < 0 \/ row >= CONSOLE_HEIGHT \/ col < 0 \/ col >= CONSOLE_WIDTH
    THEN [ret |-> -1, st |-> st]
    ELSE [ret |-> 0, st |-> [st EXCEPT !.cursor = [row |-> col, col |-> row]]]

\* mutant of set_cursor: the column is not validated
set_cursorRowCheckOnly(st, row, col) ==
    IF row < 0 \/ row >= CONSOLE_HEIGHT
    THEN [ret |-> -1, st |-> st]
    ELSE [ret |-> 0, st |-> [st EXCEPT !.cursor = [row |-> row, col |-> col]]]

set_cursor(st, row, col) ==
    IF row < 0 \/ row >= CONSOLE_HEIGHT \/ col < 0 \/ col >= CONSOLE_WIDTH
    THEN [ret |-> -1, st |-> st]
    ELSE [ret |-> 0, st |-> [st EXCEPT !.cursor = [row |-> row, col |-> col]]]

get_cursor(st) == <<st.cursor.row, st.cursor.col>>      \* <<*row, *col>>

get_term_color(st) == st.cursor_color                   \* *color

\* mutant of set_term_color: an invalid colour is reported and stored all the same
set_term_colorStoresInvalid(st, color) ==
    IF color >= COLOR_BOUND \/ color < 0
    THEN [ret |-> -1, st |-> [st EXCEPT !.cursor_color = color % 256]]
    ELSE [ret |-> 0, st |-> [st EXCEPT !.cursor_color = color]]

set_term_color(st, color) ==
    IF color >= COLOR_BOUND \/ color < 0
    THEN [ret |-> -1, st |-> st]
    ELSE [ret |-> 0, st |-> [st EXCEPT !.cursor_color = color]]

CrtcAt(pos) == [msb |-> Hi8(pos), lsb |-> Lo8(pos)]

\* mutant of hide_cursor: the register is moved off the grid, the flag is not set
hide_cursorNoFlag(st) == [st EXCEPT !.crtc = CrtcAt(CONSOLE_SZ + 1)]

hide_cursor(st) ==
    [st EXCEPT !.crtc = CrtcAt(CONSOLE_SZ + 1), !.cursor_hidden = HIDDEN]

show_cursor(st) ==
    [st EXCEPT !.crtc = CrtcAt(st.cursor.col + st.cursor.row * CONSOLE_WIDTH)]

WithCursorAt(st, pos) ==
    [st EXCEPT !.cursor = [row |-> pos \div CONSOLE_WIDTH, col |-> pos % CONSOLE_WIDTH]]

\* mutant of ScrollIfPastEnd: the row is not brought back into the grid
ScrollIfPastEndRowStays(st) ==
    IF st.cursor.row >= CONSOLE_HEIGHT THEN console_scroll(st) ELSE st

ScrollIfPastEnd(st) ==
    IF st.cursor.row >= CONSOLE_HEIGHT
    THEN console_scroll([st EXCEPT !.cursor.row = CONSOLE_HEIGHT - 1])
    ELSE st

\* mutant of putbyte: backspace moves the cursor back and erases nothing
putbyteBackspaceKeepsCell(st, ch) ==
    LET pos == st.cursor.row * CONSOLE_WIDTH + st.cursor.col
        moved ==
          CASE ch = 10 ->
                 ScrollIfPastEnd([st EXCEPT !.cursor = [row |-> st.cursor.row + 1, col |-> 0]])
            [] ch = 13 -> [st EXCEPT !.cursor.row = 0]
            [] ch = 8 -> WithCursorAt(st, IF pos - 1 < 0 THEN 0 ELSE pos - 1)
            [] OTHER ->
                 LET drawn == draw_char(st, st.cursor.row, st.cursor.col, ch, st.cursor_color)
                 IN ScrollIfPastEnd(WithCursorAt(drawn, pos + 1))
        placed == set_cursor(moved, moved.cursor.row, moved.cursor.col).st
    IN IF placed.cursor_hidden = VISIBLE THEN show_cursor(placed) ELSE placed

putbyte(st, ch) ==
    LET pos == st.cursor.row * CONSOLE_WIDTH + st.cursor.col
        moved ==
          CASE ch = 10 ->
                 ScrollIfPastEnd([st EXCEPT !.cursor = [row |-> st.cursor.row + 1, col |-> 0]])
            [] ch = 13 -> [st EXCEPT !.cursor.row = 0]
            [] ch = 8 ->
                 LET p == IF pos - 1 < 0 THEN 0 ELSE pos - 1
                     at == WithCursorAt(st, p)
                 IN draw_char(at, at.cursor.row, at.cursor.col, 32, at.cursor_color)
            [] OTHER ->
                 LET drawn == draw_char(st, st.cursor.row, st.cursor.col, ch, st.cursor_color)
                 IN ScrollIfPastEnd(WithCursorAt(drawn, pos + 1))
        placed == set_cursor(moved, moved.cursor.row, moved.cursor.col).st
    IN IF placed.cursor_hidden = VISIBLE THEN show_cursor(placed) ELSE placed

RECURSIVE putbytesFrom(_, _, _, _)
putbytesFrom(st, s, len, i) ==
    IF i < len THEN putbytesFrom(putbyte(st, s[i + 1]), s, len, i + 1) ELSE st

\* mutant of putbytes: the first byte is skipped
putbytesSkipsFirst(st, s, len) == putbytesFrom(st, s, len, 1)

putbytes(st, s, len) == putbytesFrom(st, s, len, 0)

clear_console(st) ==
    LET blank == [st EXCEPT !.vmem =
                    [i \in 0..(CONSOLE_SZ * 2 - 1) |->
                       IF i % 2 = 0 THEN 32 ELSE ToU8(st.cursor_color)]]
        home == set_cursor(blank, 0, 0).st
    IN IF home.cursor_hidden = VISIBLE THEN show_cursor(home) ELSE home


(***************************************************************************)
(* Scancode decoder (x86/keyhelp.h; its code is not part of the sources).  *)
(* The decode state is whether the prefix byte of an augmented key has     *)
(* been seen.  The high bit of a byte tells a release from a press.        *)
(***************************************************************************)
KeyChar(ext, code) ==
    CASE ~ext /\ code = 30 -> 97          \* 'a'
      [] ~ext /\ code = 28 -> 10          \* Enter
      [] ~ext /\ code = 72 -> 56          \* keypad '8'
      [] ext /\ code = 28 -> 10           \* keypad Enter (0xE0 0x1C)
      [] OTHER -> NoChar                  \* e.g. 0xE0 0x48, arrow up: no data

process_scancode(state, key) ==
    IF key = KH_EXT
    THEN [state |-> "ext", make |-> FALSE, data |-> FALSE, ch |-> 0]
    ELSE LET c == KeyChar(state = "ext", key % 128)
         IN [state |-> "none", make |-> key < 128, data |-> c # NoChar,
             ch |-> IF c = NoChar THEN 0 ELSE c]

(***************************************************************************)
(* The game's timer callback (game.c).  printf ends in putbytes.           *)
(***************************************************************************)
RECURSIVE Digits(_)
Digits(n) == IF n < 10 THEN <<48 + n>> ELSE Append(Digits(n \div 10), 48 + (n % 10))

FmtDec(n) == IF n < 0 THEN <<45>> \o Digits(-n) ELSE Digits(n)

TimeText(n) == <<84, 73, 77, 69, 58, 32>> \o FmtDec(n)    \* "TIME: %d"

\* g = [seconds, pause, con]: the globals tick reads and writes
tick(g, numTicks) ==
    IF numTicks % TicksPerSecond = 0
    THEN LET secs == IF g.pause = 0 THEN g.seconds + 1 ELSE g.seconds
             c1 == set_cursor(g.con, TIME_X, TIME_Y).st
             c2 == set_term_color(c1, FGND_BCYAN).st
             txt == TimeText(secs)
         IN [g EXCEPT !.seconds = secs, !.con = putbytes(c2, txt, Len(txt))]
    ELSE g

\* (*timer_callback)(numTicks): the call through the stored function pointer.
\* "probe" is a callback other than the game's, one that touches none of the
\* modelled state.
Invoke(cb, g, numTicks) == IF cb = "tick" THEN tick(g, numTicks) ELSE g

(***************************************************************************)
(* State                                                                   *)
(***************************************************************************)
VARIABLES
    pc,             \* position of the application thread
    IFlag,          \* processor interrupt flag (EFLAGS.IF): interrupt delivery enabled
    isr,            \* position of the running interrupt handler, or "idle"
    irq_no,         \* regs->irq_no of the interrupt being serviced
    tickback,       \* handler_install's argument
    idt,            \* gate descriptors, by vector
    idtr,           \* what lidt loaded into the processor
    pit,            \* what timer_init programmed into the timer
    timer_ticks, timer_callback,
    seconds, pause,
    board,          \* game_init's board[SIZE][SIZE]
    score, best_score, target_score,
    buf, buf_sz, head, tail,
    wb_ch,          \* writebuf's parameter ch
    rb_ch,          \* readbuf's local ch
    rb_reg,         \* register holding buf_sz between the load and the store of buf_sz--
    rb_popped,      \* whether the running readchar call took a byte from buf
    rc_ret,         \* what the last readchar call returned
    kh_state,       \* scancode decode state
    cursor, cursor_hidden, cursor_color, vmem, crtc,
    \* history of the run, read by the properties only
    accepted,       \* bytes writebuf stored, in order
    popped,         \* bytes readbuf took, in order
    dropped,        \* bytes writebuf refused
    overwrote,      \* writebuf stored over a byte not yet read
    nTimer, nKbd, nUnknown,     \* interrupts dispatched, by kind
    acks,           \* outb(INT_CTL_PORT, INT_ACK_CURRENT) count
    logs,           \* lprintf diagnostics of int_handler
    cbLog,          \* arguments the timer callback was invoked with, in order
    cbWho,          \* the callbacks the timer handler invoked, in order
    nOps,           \* console calls made by the application
    call            \* the last console call: [op, args, ret, from (cursor before it),
                    \* shown (no hide_cursor call yet, or a show_cursor call since the last)]

cpuVars == <<pc, IFlag, isr, irq_no, tickback>>
idtVars == <<idt, idtr>>
timerVars == <<pit, timer_ticks, timer_callback>>
playVars == <<board, score, best_score, target_score>>
gameVars == <<seconds, pause, playVars>>
bufVars == <<buf, buf_sz, head, tail>>
kbdLocals == <<wb_ch, rb_ch, rb_reg, rb_popped, rc_ret, kh_state>>
consoleVars == <<cursor, cursor_hidden, cursor_color, vmem, crtc>>
histVars == <<accepted, popped, dropped, overwrote, nTimer, nKbd, nUnknown, acks, logs, cbLog, cbWho, nOps, call>>
vars == <<cpuVars, idtVars, timerVars, gameVars, bufVars, kbdLocals, consoleVars, histVars>>

Vectors == {IRQ_TIMER, IRQ_KBD, 34}
AsmHandler == [v \in Vectors |-> 1048576 + 16 * v]   \* entry points of the asm thunks
SEGSEL_KERNEL_CS == 16
NoGate == [low_0_15 |-> 0, selector |-> 0, padding1 |-> 0, type |-> 0, padding2 |-> 0,
           dpl |-> 0, present |-> 0, high_16_31 |-> 0]

Scancodes == {28, 30, 158, 224, 72}     \* bytes inb(KEYBOARD_PORT) yields
FewScancodes == {30, 224}
Callbacks == {"NULL", "tick"}
Callbacks3 == {"NULL", "tick", "probe"}
PutChars == {72, 10}                    \* 'H', '\n'

SIZE == 4
ZeroBoard == [x \in 0..(SIZE - 1) |-> [y \in 0..(SIZE - 1) |-> 0]]   \* board[SIZE][SIZE]={{0}}

NoCall == [op |-> "none", args |-> <<>>, ret |-> 0, from |-> [row |-> 0, col |-> 0],
           shown |-> TRUE]

Console == [cursor |-> cursor, cursor_hidden |-> cursor_hidden,
            cursor_color |-> cursor_color, vmem |-> vmem, crtc |-> crtc]

SetConsole(st) ==
    /\ cursor' = st.cursor
    /\ cursor_hidden' = st.cursor_hidden
    /\ cursor_color' = st.cursor_color
    /\ vmem' = st.vmem
    /\ crtc' = st.crtc

\* Everything but the application's position and the game's board and scores.
InitMachine ==
    /\ IFlag = FALSE /\ isr = "idle" /\ irq_no = 0 /\ tickback = "NULL"
    /\ idt = [v \in Vectors |-> NoGate]
    /\ idtr = [loaded |-> FALSE, base |-> "none", lim |-> 0]
    /\ pit = [mode |-> 0, period |-> 0]
    /\ timer_ticks = 0 /\ timer_callback = "NULL"
    /\ seconds = 0 /\ pause = 0
    /\ buf = [i \in 0..(MAX_BUF_SZ - 1) |-> 0]
    /\ buf_sz = 0 /\ head = 0 /\ tail = 0
    /\ wb_ch = 0 /\ rb_ch = 0 /\ rb_reg = 0 /\ rb_popped = FALSE /\ rc_ret = NoChar
    /\ kh_state = "none"
    /\ cursor = [row |-> 0, col |-> 0]
    /\ cursor_hidden = VISIBLE
    /\ cursor_color = FGND_LGRAY
    /\ vmem = [i \in 0..(CONSOLE_SZ * 2 - 1) |-> IF i % 2 = 0 THEN 32 ELSE FGND_LGRAY]
    /\ crtc = CrtcAt(0)
    /\ accepted = <<>> /\ popped = <<>> /\ dropped = 0 /\ overwrote = FALSE
    /\ nTimer = 0 /\ nKbd = 0 /\ nUnknown = 0 /\ acks = 0 /\ logs = 0
    /\ cbLog = <<>> /\ cbWho = <<>> /\ nOps = 0
    /\ call = NoCall

Init ==
    /\ pc = "boot"
    /\ InitMachine
    /\ board = ZeroBoard
    /\ score = 0 /\ best_score = 0 /\ target_score = 0


(***************************************************************************)
(* Installation (int.c): handler_install = load_idt; int_init;             *)
(* timer_install.  game_init then calls enable_interrupts.                 *)
(***************************************************************************)
\* mutant of SETGATE: the high half of the handler's address is not stored
SETGATELowHalf(gate, num, sel, handler, dpl) ==
    [gate EXCEPT ![num] =
       [low_0_15 |-> handler % 65536, selector |-> sel % 65536, padding1 |-> 0,
        type |-> INT_32, padding2 |-> 0, dpl |-> dpl % 4, present |-> 1,
        high_16_31 |-> 0]]

SETGATE(gate, num, sel, handler, dpl) ==
    [gate EXCEPT ![num] =
       [low_0_15 |-> handler % 65536, selector |-> sel % 65536, padding1 |-> 0,
        type |-> INT_32, padding2 |-> 0, dpl |-> dpl % 4, present |-> 1,
        high_16_31 |-> handler \div 65536]]

timer_init ==
    LET period == TIMER_RATE \div 100
    IN [mode |-> TIMER_SQUARE_WAVE, period |-> Lo8(period) + 256 * Hi8(period)]

\* game_init calls handler_install(cb)
handler_install(cbs) ==
    /\ isr = "idle" /\ pc = "boot"
    /\ \E cb \in cbs : tickback' = cb
    /\ pc' = "load_idt"
    /\ UNCHANGED <<IFlag, isr, irq_no, idtVars, timerVars, gameVars, bufVars, kbdLocals,
                   consoleVars, histVars>>

load_idt ==
    /\ isr = "idle" /\ pc = "load_idt"
    /\ idtr' = [loaded |-> TRUE, base |-> "idt", lim |-> IDT_LIIMIT]
    /\ pc' = "int_init"
    /\ UNCHANGED <<IFlag, isr, irq_no, tickback, idt, timerVars, gameVars, bufVars,
                   kbdLocals, consoleVars, histVars>>

int_init ==
    /\ isr = "idle" /\ pc = "int_init"
    /\ idt' = SETGATE(SETGATE(idt, IRQ_TIMER, SEGSEL_KERNEL_CS, AsmHandler[IRQ_TIMER], 0),
                      IRQ_KBD, SEGSEL_KERNEL_CS, AsmHandler[IRQ_KBD], 0)
    /\ pc' = "timer_install"
    /\ UNCHANGED <<IFlag, isr, irq_no, tickback, idtr, timerVars, gameVars, bufVars,
                   kbdLocals, consoleVars, histVars>>

\* mutant of timer_install: it also enables interrupt delivery
timer_installEnables ==
    /\ isr = "idle" /\ pc = "timer_install"
    /\ pit' = timer_init
    /\ timer_callback' = tickback
    /\ IFlag' = TRUE
    /\ pc' = "installed"
    /\ UNCHANGED <<isr, irq_no, tickback, idtVars, timer_ticks, gameVars, bufVars,
                   kbdLocals, consoleVars, histVars>>

\* mutant of timer_install: a callback already registered is kept
timer_installKeepsFirst ==
    /\ isr = "idle" /\ pc = "timer_install"
    /\ pit' = timer_init
    /\ timer_callback' = IF timer_callback = "NULL" THEN tickback ELSE timer_callback
    /\ pc' = "installed"
    /\ UNCHANGED <<IFlag, isr, irq_no, tickback, idtVars, timer_ticks, gameVars, bufVars,
                   kbdLocals, consoleVars, histVars>>

\* timer_install, then handler_install returns 0
timer_install ==
    /\ isr = "idle" /\ pc = "timer_install"
    /\ pit' = timer_init
    /\ timer_callback' = tickback
    /\ pc' = "installed"
    /\ UNCHANGED <<IFlag, isr, irq_no, tickback, idtVars, timer_ticks, gameVars, bufVars,
                   kbdLocals, consoleVars, histVars>>

enable_interrupts ==
    /\ isr = "idle" /\ pc = "installed"
    /\ IFlag' = TRUE
    /\ pc' = "main"
    /\ UNCHANGED <<isr, irq_no, tickback, idtVars, timerVars, gameVars, bufVars,
                   kbdLocals, consoleVars, histVars>>

\* A caller that invokes handler_install again after the first installation
\* (timer_install is static, so the timer is re-installed through it).
InstallAgain ==
    /\ isr = "idle" /\ pc = "main" /\ nOps < MaxOps
    /\ pc' = "boot"
    /\ nOps' = nOps + 1
    /\ UNCHANGED <<IFlag, isr, irq_no, tickback, idtVars, timerVars, gameVars, bufVars, kbdLocals,
                   consoleVars, accepted, popped, dropped, overwrote, nTimer, nKbd, nUnknown,
                   acks, logs, cbLog, cbWho, call>>

(***************************************************************************)
(* Application thread: readchar (int.c), one action per memory access of   *)
(* readbuf, so that an interrupt can be taken between any two of them.     *)
(***************************************************************************)
AppFrame == <<IFlag, isr, irq_no, tickback, idtVars, timerVars, gameVars>>

\* readchar is entered; readbuf starts with ch = 0
ReadcharCall ==
    /\ isr = "idle" /\ pc = "main"
    /\ pc' = "rb_check"
    /\ rb_ch' = 0 /\ rb_popped' = FALSE
    /\ UNCHANGED <<AppFrame, bufVars, wb_ch, rb_reg, rc_ret, kh_state, consoleVars, histVars>>

\* if(buf_sz > 0)
RbCheck ==
    /\ isr = "idle" /\ pc = "rb_check"
    /\ pc' = IF buf_sz > 0 THEN "rb_read" ELSE "rc_decode"
    /\ UNCHANGED <<AppFrame, bufVars, kbdLocals, consoleVars, histVars>>

\* ch = buf[tail++]
RbRead ==
    /\ isr = "idle" /\ pc = "rb_read"
    /\ rb_ch' = ToU8(buf[tail])
    /\ tail' = tail + 1
    /\ rb_popped' = TRUE
    /\ popped' = Append(popped, ToU8(buf[tail]))
    /\ pc' = "rb_wrap"
    /\ UNCHANGED <<AppFrame, buf, buf_sz, head, wb_ch, rb_reg, rc_ret, kh_state, consoleVars,
                   accepted, dropped, overwrote, nTimer, nKbd, nUnknown, acks, logs, cbLog, cbWho, nOps, call>>

\* if(tail == MAX_BUF_SZ) tail = 0
RbWrap ==
    /\ isr = "idle" /\ pc = "rb_wrap"
    /\ tail' = IF tail = MAX_BUF_SZ THEN 0 ELSE tail
    /\ pc' = "rb_dec"
    /\ UNCHANGED <<AppFrame, buf, buf_sz, head, kbdLocals, consoleVars, histVars>>

\* buf_sz--: buf_sz is shared with the keyboard ISR and is neither volatile nor
\* protected, so the build may emit one read-modify-write instruction, or a load
\* and a later store with an interrupt possible in between.
RbDec ==
    /\ isr = "idle" /\ pc = "rb_dec"
    /\ \/ /\ buf_sz' = buf_sz - 1
          /\ pc' = "rc_decode"
          /\ UNCHANGED rb_reg
       \/ /\ rb_reg' = buf_sz
          /\ pc' = "rb_store"
          /\ UNCHANGED buf_sz
    /\ UNCHANGED <<AppFrame, buf, head, tail, wb_ch, rb_ch, rb_popped, rc_ret, kh_state,
                   consoleVars, histVars>>

RbStore ==
    /\ isr = "idle" /\ pc = "rb_store"
    /\ buf_sz' = rb_reg - 1
    /\ pc' = "rc_decode"
    /\ UNCHANGED <<AppFrame, buf, head, tail, kbdLocals, consoleVars, histVars>>

\* mutant of RcDecode: KH_ISMAKE is not tested
RcDecodeIgnoresMake ==
    /\ isr = "idle" /\ pc = "rc_decode"
    /\ LET aug == process_scancode(kh_state, rb_ch)
       IN /\ kh_state' = aug.state
          /\ rc_ret' = IF aug.data THEN aug.ch % 256 ELSE NoChar
    /\ pc' = "main"
    /\ rb_ch' = 0 /\ rb_reg' = 0
    /\ UNCHANGED <<AppFrame, bufVars, wb_ch, rb_popped, consoleVars, histVars>>

\* aug = process_scancode(ch); return KH_GETCHAR(aug) or -1
RcDecode ==
    /\ isr = "idle" /\ pc = "rc_decode"
    /\ LET aug == process_scancode(kh_state, rb_ch)
       IN /\ kh_state' = aug.state
          /\ rc_ret' = IF aug.make /\ aug.data THEN aug.ch % 256 ELSE NoChar
    /\ pc' = "main"
    /\ rb_ch' = 0 /\ rb_reg' = 0         \* the locals die with the call
    /\ UNCHANGED <<AppFrame, bufVars, wb_ch, rb_popped, consoleVars, histVars>>

(***************************************************************************)
(* Application thread: console calls of the game                           *)
(***************************************************************************)
AppSetCursor ==
    /\ isr = "idle" /\ pc = "main" /\ nOps < MaxOps
    /\ \E r \in 0..(CONSOLE_HEIGHT - 1), c \in 0..(CONSOLE_WIDTH - 1) :
          SetConsole(set_cursor(Console, r, c).st)
    /\ nOps' = nOps + 1
    /\ UNCHANGED <<cpuVars, idtVars, timerVars, gameVars, bufVars, kbdLocals,
                   accepted, popped, dropped, overwrote, nTimer, nKbd, nUnknown, acks, logs, cbLog, cbWho, call>>

AppPutbyte ==
    /\ isr = "idle" /\ pc = "main" /\ nOps < MaxOps
    /\ \E ch \in PutChars : SetConsole(putbyte(Console, ch))
    /\ nOps' = nOps + 1
    /\ UNCHANGED <<cpuVars, idtVars, timerVars, gameVars, bufVars, kbdLocals,
                   accepted, popped, dropped, overwrote, nTimer, nKbd, nUnknown, acks, logs, cbLog, cbWho, call>>

\* mutant of restartgame: the restart runs game_init from its first statement
restartgameReinstalls ==
    /\ isr = "idle" /\ pc = "main" /\ nOps < MaxOps
    /\ LET cleared == clear_console(Console)
           ui == set_term_color(cleared, FGND_BCYAN).st
           home == set_cursor(ui, 0, 0).st
           white == set_term_color(home, FGND_WHITE).st
       IN SetConsole(hide_cursor(white))
    /\ seconds' = 0
    /\ pc' = "boot"
    /\ nOps' = nOps + 1
    /\ call' = [op |-> "restartgame", args |-> <<>>, ret |-> 0, from |-> cursor,
                shown |-> FALSE]
    /\ UNCHANGED <<IFlag, isr, irq_no, tickback, idtVars, timerVars, pause, playVars, bufVars, kbdLocals,
                   accepted, popped, dropped, overwrote, nTimer, nKbd, nUnknown, acks, logs,
                   cbLog, cbWho>>

\* goto restartgame (game_init): the game starts over at the label that follows
\* handler_install and enable_interrupts.  Of the statements between the label
\* and the game loop, the ones on the console driver's state and on seconds are
\* modelled; the texts printed (UI, mode, scores, board) change grid cells only
\* and are left out.
restartgame ==
    /\ isr = "idle" /\ pc = "main" /\ nOps < MaxOps
    /\ LET cleared == clear_console(Console)
           ui == set_term_color(cleared, FGND_BCYAN).st
           home == set_cursor(ui, 0, 0).st
           white == set_term_color(home, FGND_WHITE).st
       IN SetConsole(hide_cursor(white))
    /\ seconds' = 0
    /\ pc' = "main"
    /\ nOps' = nOps + 1
    /\ call' = [op |-> "restartgame", args |-> <<>>, ret |-> 0, from |-> cursor,
                shown |-> FALSE]
    /\ UNCHANGED <<IFlag, isr, irq_no, tickback, idtVars, timerVars, pause, playVars, bufVars, kbdLocals,
                   accepted, popped, dropped, overwrote, nTimer, nKbd, nUnknown, acks, logs,
                   cbLog, cbWho>>


(***************************************************************************)
(* Calls of the console driver with arguments of every kind, valid and not *)
(***************************************************************************)
CursorRows == (-1)..CONSOLE_HEIGHT
CursorCols == (-1)..CONSOLE_WIDTH
Colors == {-1, 0, FGND_BCYAN, 255, 256}
ConBytes == {72, 200, 10, 13, 8}        \* 'H', a byte above 127, '\n', '\r', '\b'

\* one call of the driver, the max-th at most: its effect st and its result ret
ConCallUpTo(max, op, args, ret, st) ==
    /\ isr = "idle" /\ nOps < max
    /\ SetConsole(st)
    /\ call' = [op |-> op, args |-> args, ret |-> ret, from |-> cursor,
                shown |-> IF op = "hide_cursor" THEN FALSE
                          ELSE IF op = "show_cursor" THEN TRUE ELSE call.shown]
    /\ nOps' = nOps + 1
    /\ UNCHANGED <<cpuVars, idtVars, timerVars, gameVars, bufVars, kbdLocals,
                   accepted, popped, dropped, overwrote, nTimer, nKbd, nUnknown, acks, logs,
                   cbLog, cbWho>>

ConCall(op, args, ret, st) == ConCallUpTo(MaxConOps, op, args, ret, st)

CallSetCursor ==
    \E r \in CursorRows, c \in CursorCols :
       LET res == set_cursor(Console, r, c) IN ConCall("set_cursor", <<r, c>>, res.ret, res.st)

CallSetTermColor ==
    \E color \in Colors :
       LET res == set_term_color(Console, color)
       IN ConCall("set_term_color", <<color>>, res.ret, res.st)

CallPutbyte ==
    \E b \in ConBytes : ConCall("putbyte", <<b>>, ToChar(b), putbyte(Console, ToChar(b)))

CallHideCursor == ConCall("hide_cursor", <<>>, 0, hide_cursor(Console))

CallShowCursor == ConCall("show_cursor", <<>>, 0, show_cursor(Console))

(***************************************************************************)
(* Calls of every operation of the driver, longer sequences of them, each  *)
(* with a few arguments: one valid, one invalid in each way.               *)
(***************************************************************************)
ScreenCursors == {<<CONSOLE_HEIGHT - 1, 1>>, <<0, CONSOLE_WIDTH>>}
ScreenColors == {FGND_BCYAN, 256}
ScreenBytes == {72, 10, 13, 8}
HiText == <<72, 105>>                   \* "Hi"
\* a pointer to a string: null, or the address of bytes
StrPtrs == {[null |-> FALSE, bytes |-> HiText], [null |-> FALSE, bytes |-> <<72, 10>>],
            [null |-> TRUE, bytes |-> <<>>]}
\* what a read through a null pointer yields is not defined: the bytes at
\* address 0 are whatever the machine holds there
LowMemory == {<<0, 0>>, <<72, 72>>}
Deref(s, mem) == IF s.null THEN mem ELSE s.bytes
DrawArgs ==
    {<<CONSOLE_HEIGHT - 1, CONSOLE_WIDTH - 1, 88, FGND_BCYAN>>, <<0, 1, 200, 255>>,
     <<-1, 0, 88, FGND_BCYAN>>, <<CONSOLE_HEIGHT, 0, 88, FGND_BCYAN>>,
     <<0, -1, 88, FGND_BCYAN>>, <<0, CONSOLE_WIDTH, 88, FGND_BCYAN>>,
     <<0, 0, 88, -1>>, <<0, 0, 88, 256>>}

ScreenSetCursor ==
    \E rc \in ScreenCursors :
       LET res == set_cursor(Console, rc[1], rc[2])
       IN ConCallUpTo(MaxScreenOps, "set_cursor", rc, res.ret, res.st)

ScreenSetTermColor ==
    \E color \in ScreenColors :
       LET res == set_term_color(Console, color)
       IN ConCallUpTo(MaxScreenOps, "set_term_color", <<color>>, res.ret, res.st)

ScreenPutbyte ==
    \E b \in ScreenBytes :
       ConCallUpTo(MaxScreenOps, "putbyte", <<b>>, ToChar(b), putbyte(Console, ToChar(b)))

ScreenPutbytes ==
    \E s \in StrPtrs, len \in (-1)..Len(HiText), mem \in LowMemory :
       ConCallUpTo(MaxScreenOps, "putbytes", <<s, len>>, 0,
                   putbytes(Console, Deref(s, mem), len))

ScreenHideCursor == ConCallUpTo(MaxScreenOps, "hide_cursor", <<>>, 0, hide_cursor(Console))

ScreenShowCursor == ConCallUpTo(MaxScreenOps, "show_cursor", <<>>, 0, show_cursor(Console))

ScreenClear == ConCallUpTo(MaxScreenOps, "clear_console", <<>>, 0, clear_console(Console))

ScreenScroll == ConCallUpTo(MaxScreenOps, "console_scroll", <<>>, 0, console_scroll(Console))

ScreenDrawChar ==
    \E a \in DrawArgs :
       ConCallUpTo(MaxScreenOps, "draw_char", a, 0, draw_char(Console, a[1], a[2], a[3], a[4]))

(***************************************************************************)
(* Interrupts.  The asm thunk saves the registers, pushes the vector and   *)
(* calls int_handler; the gate clears the interrupt flag and iret restores *)
(* it.  Vector 34 stands for any vector other than the two installed ones  *)
(* reaching int_handler.                                                   *)
(***************************************************************************)
IsrFrame == <<pc, tickback, idtVars, pit, timer_callback>>

IrqEnter(v, max) ==
    /\ IFlag /\ isr = "idle"
    /\ nTimer + nKbd + nUnknown < max
    /\ irq_no' = v
    /\ isr' = "int_handler"
    /\ IFlag' = FALSE
    /\ UNCHANGED <<IsrFrame, timer_ticks, gameVars, bufVars, kbdLocals, consoleVars, histVars>>

\* if(regs->irq_no == IRQ_TIMER) timer_handler(regs);
IntHandlerTimer ==
    /\ isr = "int_handler" /\ irq_no = IRQ_TIMER
    /\ isr' = "timer_handler"
    /\ nTimer' = nTimer + 1
    /\ UNCHANGED <<IsrFrame, IFlag, irq_no, timer_ticks, gameVars, bufVars, kbdLocals, consoleVars,
                   accepted, popped, dropped, overwrote, nKbd, nUnknown, acks, logs, cbLog, cbWho, nOps, call>>

\* else if(regs->irq_no == IRQ_KBD) kbd_handler(regs);
IntHandlerKbd ==
    /\ isr = "int_handler" /\ irq_no # IRQ_TIMER /\ irq_no = IRQ_KBD
    /\ isr' = "kbd_handler"
    /\ nKbd' = nKbd + 1
    /\ UNCHANGED <<IsrFrame, IFlag, irq_no, timer_ticks, gameVars, bufVars, kbdLocals, consoleVars,
                   accepted, popped, dropped, overwrote, nTimer, nUnknown, acks, logs, cbLog, cbWho, nOps, call>>

\* mutant of IntHandlerUnknown: the else branch acknowledges too
IntHandlerUnknownAcks ==
    /\ isr = "int_handler" /\ irq_no # IRQ_TIMER /\ irq_no # IRQ_KBD
    /\ logs' = logs + 1
    /\ nUnknown' = nUnknown + 1
    /\ acks' = acks + 1
    /\ isr' = "idle"
    /\ IFlag' = TRUE
    /\ irq_no' = 0
    /\ UNCHANGED <<IsrFrame, timer_ticks, gameVars, bufVars, kbdLocals, consoleVars,
                   accepted, popped, dropped, overwrote, nTimer, nKbd, cbLog, cbWho, nOps, call>>

\* else: lprintf(...); return;
IntHandlerUnknown ==
    /\ isr = "int_handler" /\ irq_no # IRQ_TIMER /\ irq_no # IRQ_KBD
    /\ logs' = logs + 1
    /\ nUnknown' = nUnknown + 1
    /\ isr' = "idle"
    /\ IFlag' = TRUE
    /\ irq_no' = 0                       \* the saved frame dies with iret
    /\ UNCHANGED <<IsrFrame, timer_ticks, gameVars, bufVars, kbdLocals, consoleVars,
                   accepted, popped, dropped, overwrote, nTimer, nKbd, acks, cbLog, cbWho, nOps, call>>

\* outb(INT_CTL_PORT, INT_ACK_CURRENT); return;  (timer branch)
IntHandlerTimerAck ==
    /\ isr = "timer_ack"
    /\ acks' = acks + 1
    /\ isr' = "idle"
    /\ IFlag' = TRUE
    /\ irq_no' = 0                       \* the saved frame dies with iret
    /\ UNCHANGED <<IsrFrame, timer_ticks, gameVars, bufVars, kbdLocals, consoleVars,
                   accepted, popped, dropped, overwrote, nTimer, nKbd, nUnknown, logs, cbLog, cbWho, nOps, call>>

\* mutant of IntHandlerKbdAck: the keyboard branch returns without the outb
IntHandlerKbdNoAck ==
    /\ isr = "kbd_ack"
    /\ isr' = "idle"
    /\ IFlag' = TRUE
    /\ irq_no' = 0
    /\ UNCHANGED <<IsrFrame, timer_ticks, gameVars, bufVars, kbdLocals, consoleVars, histVars>>

\* outb(INT_CTL_PORT, INT_ACK_CURRENT); return;  (keyboard branch)
IntHandlerKbdAck ==
    /\ isr = "kbd_ack"
    /\ acks' = acks + 1
    /\ isr' = "idle"
    /\ IFlag' = TRUE
    /\ irq_no' = 0                       \* the saved frame dies with iret
    /\ UNCHANGED <<IsrFrame, timer_ticks, gameVars, bufVars, kbdLocals, consoleVars,
                   accepted, popped, dropped, overwrote, nTimer, nKbd, nUnknown, logs, cbLog, cbWho, nOps, call>>

(***************************************************************************)
(* Timer handler (int.c)                                                   *)
(***************************************************************************)
\* mutant of TimerHandlerInc: the counter advances by two
TimerHandlerIncTwo ==
    /\ isr = "timer_handler"
    /\ timer_ticks' = (timer_ticks + 2) % TickModulus
    /\ isr' = "timer_callback"
    /\ UNCHANGED <<IsrFrame, IFlag, irq_no, gameVars, bufVars, kbdLocals, consoleVars, histVars>>

\* timer_ticks++
TimerHandlerInc ==
    /\ isr = "timer_handler"
    /\ timer_ticks' = (timer_ticks + 1) % TickModulus
    /\ isr' = "timer_callback"
    /\ UNCHANGED <<IsrFrame, IFlag, irq_no, gameVars, bufVars, kbdLocals, consoleVars, histVars>>

\* if(timer_callback) timer_callback(timer_ticks);
TimerHandlerCallback ==
    /\ isr = "timer_callback"
    /\ IF timer_callback = "NULL"
       THEN UNCHANGED <<seconds, consoleVars, cbLog, cbWho>>
       ELSE LET g == Invoke(timer_callback,
                            [seconds |-> seconds, pause |-> pause, con |-> Console], timer_ticks)
            IN /\ cbLog' = Append(cbLog, timer_ticks)
               /\ cbWho' = Append(cbWho, timer_callback)
               /\ seconds' = g.seconds
               /\ SetConsole(g.con)
    /\ isr' = "timer_ack"
    /\ UNCHANGED <<IsrFrame, IFlag, irq_no, timer_ticks, pause, playVars, bufVars, kbdLocals,
                   accepted, popped, dropped, overwrote, nTimer, nKbd, nUnknown, acks, logs, nOps, call>>

(***************************************************************************)
(* Keyboard handler (int.c): writebuf(inb(KEYBOARD_PORT))                  *)
(***************************************************************************)
kbd_handler(codes) ==
    /\ isr = "kbd_handler"
    /\ \E b \in codes : wb_ch' = ToChar(b)
    /\ isr' = "wb_check"
    /\ UNCHANGED <<IsrFrame, IFlag, irq_no, timer_ticks, gameVars, bufVars, rb_ch, rb_reg,
                   rb_popped, rc_ret, kh_state, consoleVars, histVars>>

\* mutant of WbCheck: the guard off by one, if (buf_sz <= MAX_BUF_SZ)
WbCheckOffByOne ==
    /\ isr = "wb_check"
    /\ IF buf_sz <= MAX_BUF_SZ
       THEN isr' = "wb_store" /\ UNCHANGED <<dropped, wb_ch>>
       ELSE isr' = "kbd_ack" /\ dropped' = dropped + 1 /\ wb_ch' = 0
    /\ UNCHANGED <<IsrFrame, IFlag, irq_no, timer_ticks, gameVars, bufVars, rb_ch, rb_reg,
                   rb_popped, rc_ret, kh_state, consoleVars,
                   accepted, popped, overwrote, nTimer, nKbd, nUnknown, acks, logs, cbLog, cbWho, nOps, call>>

\* if (buf_sz < MAX_BUF_SZ)
WbCheck ==
    /\ isr = "wb_check"
    /\ IF buf_sz < MAX_BUF_SZ
       THEN isr' = "wb_store" /\ UNCHANGED <<dropped, wb_ch>>
       ELSE isr' = "kbd_ack" /\ dropped' = dropped + 1 /\ wb_ch' = 0
    /\ UNCHANGED <<IsrFrame, IFlag, irq_no, timer_ticks, gameVars, bufVars, rb_ch, rb_reg,
                   rb_popped, rc_ret, kh_state, consoleVars,
                   accepted, popped, overwrote, nTimer, nKbd, nUnknown, acks, logs, cbLog, cbWho, nOps, call>>

\* buf[head++] = ch
WbStore ==
    /\ isr = "wb_store"
    /\ buf' = [buf EXCEPT ![head] = wb_ch]
    /\ head' = head + 1
    /\ accepted' = Append(accepted, ToU8(wb_ch))
    /\ overwrote' = (overwrote \/ Len(accepted) - Len(popped) >= MAX_BUF_SZ)
    /\ isr' = "wb_wrap"
    /\ UNCHANGED <<IsrFrame, IFlag, irq_no, timer_ticks, gameVars, buf_sz, tail, kbdLocals,
                   consoleVars, popped, dropped, nTimer, nKbd, nUnknown, acks, logs, cbLog, cbWho, nOps, call>>

\* mutant of WbWrap: head wraps one slot early
WbWrapEarly ==
    /\ isr = "wb_wrap"
    /\ head' = IF head = MAX_BUF_SZ - 1 THEN 0 ELSE head
    /\ isr' = "wb_inc"
    /\ UNCHANGED <<IsrFrame, IFlag, irq_no, timer_ticks, gameVars, buf, buf_sz, tail, kbdLocals,
                   consoleVars, histVars>>

\* if(head == MAX_BUF_SZ) head = 0
WbWrap ==
    /\ isr = "wb_wrap"
    /\ head' = IF head = MAX_BUF_SZ THEN 0 ELSE head
    /\ isr' = "wb_inc"
    /\ UNCHANGED <<IsrFrame, IFlag, irq_no, timer_ticks, gameVars, buf, buf_sz, tail, kbdLocals,
                   consoleVars, histVars>>

\* buf_sz++
WbInc ==
    /\ isr = "wb_inc"
    /\ buf_sz' = buf_sz + 1
    /\ isr' = "kbd_ack"
    /\ wb_ch' = 0                        \* the parameter dies with the call
    /\ UNCHANGED <<IsrFrame, IFlag, irq_no, timer_ticks, gameVars, buf, head, tail, rb_ch, rb_reg,
                   rb_popped, rc_ret, kh_state, consoleVars, histVars>>

(***************************************************************************)
(* The game (game.c): board operations.  psd_board, the copy of the board  *)
(* that animation() and draw_psd_num() use to draw the added values, is    *)
(* rotated alongside the board and feeds the drawing only; it is left out. *)
(***************************************************************************)
\* mutant of RotateCycle: the last assignment reads board[i][j] instead of temp
RotateCycleNoTemp(b, i, j) ==
    LET m == SIZE - 1
    IN [b EXCEPT ![i][j] = b[j][m - i],
                 ![j][m - i] = b[m - i][m - j],
                 ![m - i][m - j] = b[m - j][i],
                 ![m - j][i] = b[j][m - i]]

\* One pass of rotate's inner loop body: the four assignments through temp.
RotateCycle(b, i, j) ==
    LET m == SIZE - 1
    IN [b EXCEPT ![i][j] = b[j][m - i],
                 ![j][m - i] = b[m - i][m - j],
                 ![m - i][m - j] = b[m - j][i],
                 ![m - j][i] = b[i][j]]

RECURSIVE rotateFrom(_, _, _)
rotateFrom(b, i, j) ==
    LET n == SIZE
        m == SIZE - 1
    IN IF i >= n \div 2 THEN b
       ELSE IF j >= m - i THEN rotateFrom(b, i + 1, i + 1)
       ELSE rotateFrom(RotateCycle(b, i, j), i, j + 1)

rotate(b) == rotateFrom(b, 0, 0)

RECURSIVE findFrom(_, _, _, _)
findFrom(array, stop, x, t) ==
    IF t < 0 THEN x
    ELSE IF array[t] = 0
         THEN IF t = stop THEN t ELSE findFrom(array, stop, x, t - 1)
         ELSE IF array[t] # array[x] THEN t + 1 ELSE t

\* mutant of find: the stop index is ignored, a merged tile may merge again
findIgnoresStop(array, stop, x) ==
    IF x = 0 THEN x ELSE findFrom(array, -1, x, x - 1)

find(array, stop, x) ==
    IF x = 0 THEN x ELSE findFrom(array, stop, x, x - 1)

\* move_array's loop from index y on.  g = [array, score, best_score].
RECURSIVE move_arrayFrom(_, _, _, _)
move_arrayFrom(g, y, stop, i) ==
    IF y >= SIZE
    THEN [array |-> g.array, score |-> g.score, best_score |-> g.best_score, ret |-> i]
    ELSE IF g.array[y] = 0 THEN move_arrayFrom(g, y + 1, stop, i)
    ELSE LET t == find(g.array, stop, y)
         IN IF t = y THEN move_arrayFrom(g, y + 1, stop, i)
            ELSE LET merge == g.array[t] # 0
                     sc == IF merge THEN g.score + g.array[t] + g.array[y] ELSE g.score
                     bs == IF merge /\ g.best_score <= sc THEN sc ELSE g.best_score
                     a2 == [g.array EXCEPT ![t] = (g.array[t] + g.array[y]) % 65536,   \* uint16_t
                                            ![y] = 0]
                 IN move_arrayFrom([array |-> a2, score |-> sc, best_score |-> bs],
                                   y + 1, IF merge THEN t + 1 ELSE stop, 1)

\* mutant of move_array: best_score is not updated
move_arrayKeepsBest(g) ==
    [move_arrayFrom(g, 0, 0, 0) EXCEPT !.best_score = g.best_score]

move_array(g) == move_arrayFrom(g, 0, 0, 0)

\* g = [board, score, best_score]
RECURSIVE move_upFrom(_, _, _)
move_upFrom(g, x, i) ==
    IF x >= SIZE
    THEN [board |-> g.board, score |-> g.score, best_score |-> g.best_score, ret |-> i]
    ELSE LET r == move_array([array |-> g.board[x], score |-> g.score,
                              best_score |-> g.best_score])
         IN move_upFrom([board |-> [g.board EXCEPT ![x] = r.array], score |-> r.score,
                         best_score |-> r.best_score],
                        x + 1, IF i = 1 \/ r.ret = 1 THEN 1 ELSE 0)

move_up(g) == move_upFrom(g, 0, 0)

Rotated(g) == [g EXCEPT !.board = rotate(g.board)]

move_down(g) == Rotated(Rotated(move_up(Rotated(Rotated(g)))))

move_left(g) == Rotated(Rotated(Rotated(move_up(Rotated(g)))))

move_right(g) == Rotated(move_up(Rotated(Rotated(Rotated(g)))))

find_same(b) ==
    IF \E x \in 0..(SIZE - 1), y \in 0..(SIZE - 2) : b[x][y] = b[x][y + 1] THEN 1 ELSE 0

\* is_over: [board after the call, ret]
is_over(b) ==
    IF \E x \in 0..(SIZE - 1), y \in 0..(SIZE - 1) : b[x][y] = 0
    THEN [board |-> b, ret |-> 0]
    ELSE IF find_same(b) = 1 THEN [board |-> b, ret |-> 0]
    ELSE LET b1 == rotate(b)
             over == IF find_same(b1) = 1 THEN 0 ELSE 1
         IN [board |-> rotate(rotate(rotate(b1))), ret |-> over]

is_win(b, target) ==
    IF \E x \in 0..(SIZE - 1), y \in 0..(SIZE - 1) : b[x][y] = target THEN 1 ELSE 0

clear_num == ZeroBoard

\* The empty blocks in the order add_random lists them.
RECURSIVE EmptyFrom(_, _)
EmptyFrom(b, k) ==
    IF k >= SIZE * SIZE THEN <<>>
    ELSE LET x == k \div SIZE
             y == k % SIZE
         IN (IF b[x][y] = 0 THEN <<<<x, y>>>> ELSE <<>>) \o EmptyFrom(b, k + 1)

\* add_random with rand() returning r1 for RANDOM(len) and r2 for RANDONM_NUM(3)
add_random(b, r1, r2) ==
    LET list == EmptyFrom(b, 0)
        len == Len(list)
    IN IF len > 0
       THEN LET xy == list[(r1 % len) + 1]
                n == (((r2 % 3) \div (3 - 1)) + 1) * 2
            IN [b EXCEPT ![xy[1]][xy[2]] = n]
       ELSE b

(***************************************************************************)
(* Calls of the board functions on boards of every kind                    *)
(***************************************************************************)
RowBoard(r) == [x \in 0..(SIZE - 1) |-> IF x = 0 THEN r ELSE ZeroBoard[x]]
AsRow(s) == [y \in 0..(SIZE - 1) |-> s[y + 1]]
AsBoard(s) == [x \in 0..(SIZE - 1) |-> AsRow(s[x + 1])]

\* full, no equal neighbours in any direction
FullBoard == AsBoard(<< <<2, 4, 2, 4>>, <<4, 2, 4, 2>>, <<2, 4, 2, 4>>, <<4, 2, 4, 2>> >>)
\* A board with every block different, which shows where each block goes; the
\* full board; a full board with equal neighbours in a column only; a full
\* board with equal neighbours in a row.
TestBoards ==
    {[x \in 0..(SIZE - 1) |-> [y \in 0..(SIZE - 1) |-> SIZE * x + y + 1]],
     FullBoard,
     AsBoard(<< <<2, 4, 2, 4>>, <<4, 2, 4, 2>>, <<2, 4, 2, 4>>, <<2, 8, 16, 32>> >>),
     AsBoard(<< <<2, 2, 4, 8>>, <<4, 8, 16, 32>>, <<2, 4, 2, 4>>, <<4, 2, 4, 2>> >>)}

InitBoard ==
    /\ pc = "game"
    /\ InitMachine
    /\ board \in TestBoards \cup {RowBoard(r) : r \in [0..(SIZE - 1) -> {0, 2, 4, 32768}]}
    /\ \E sb \in {<<0, 0>>, <<12, 16>>} : score = sb[1] /\ best_score = sb[2]
    /\ target_score = 0

Game == [board |-> board, score |-> score, best_score |-> best_score]

BoardCall(op, args, g) ==
    /\ pc = "game" /\ isr = "idle" /\ nOps < MaxBoardOps
    /\ board' = g.board /\ score' = g.score /\ best_score' = g.best_score
    /\ call' = [op |-> op, args |-> args, ret |-> g.ret, from |-> call.from, shown |-> call.shown]
    /\ nOps' = nOps + 1
    /\ UNCHANGED <<cpuVars, idtVars, timerVars, seconds, pause, target_score, bufVars, kbdLocals,
                   consoleVars, accepted, popped, dropped, overwrote, nTimer, nKbd, nUnknown,
                   acks, logs, cbLog, cbWho>>

CallMoveArray ==
    \E x \in 0..(SIZE - 1) :
        LET r == move_array([array |-> board[x], score |-> score, best_score |-> best_score])
        IN BoardCall("move_array", <<x, board[x]>>,
                     [board |-> [board EXCEPT ![x] = r.array], score |-> r.score,
                      best_score |-> r.best_score, ret |-> r.ret])

CallRotate ==
    BoardCall("rotate", <<board>>, [board |-> rotate(board), score |-> score,
                               best_score |-> best_score, ret |-> 0])

CallIsOver ==
    LET r == is_over(board)
    IN BoardCall("is_over", <<board>>, [board |-> r.board, score |-> score,
                                   best_score |-> best_score, ret |-> r.ret])

CallMoveUp == BoardCall("move_up", <<board>>, move_up(Game))
CallMoveDown == BoardCall("move_down", <<board>>, move_down(Game))
CallMoveLeft == BoardCall("move_left", <<board>>, move_left(Game))
CallMoveRight == BoardCall("move_right", <<board>>, move_right(Game))

(***************************************************************************)
(* The game loop of game_init (game.c), one action per readchar result.    *)
(* The texts and numbers it prints change grid cells only and are left     *)
(* out; the console driver's own state is set as the code sets it where    *)
(* the game starts over and where it ends.                                 *)
(***************************************************************************)
UP == 119                               \* 'w'
LEFT == 97                              \* 'a'
RIGHT == 100                            \* 'd'
DOWN == 115                             \* 's'
PAUSE == 112                            \* 'p'
QUIT == 113                             \* 'q'
RESTART == 114                          \* 'r'
RandPairs == {<<0, 0>>, <<5, 2>>}       \* results of add_random's two rand() calls

\* Positions the game is in: the first arrival at restartgame, and two loop
\* tops of a game under way with the score their merges add up to (a tile 2^k
\* built from tiles of 2 has added 2^k * (k - 1)): two 64 tiles side by side
\* under target 128, and the full board without equal neighbours.
InitPlay ==
    /\ InitMachine
    /\ \E s \in
          {[pc |-> "restartgame", board |-> ZeroBoard, score |-> 0, best_score |-> 0,
            target_score |-> 0],
           [pc |-> "loop", score |-> 640, best_score |-> 640, target_score |-> 128,
            board |-> AsBoard(<< <<64, 64, 0, 0>>, <<2, 0, 0, 0>>, <<0, 0, 0, 0>>,
                                 <<0, 0, 0, 0>> >>)],
           [pc |-> "loop", board |-> FullBoard, score |-> 32, best_score |-> 32,
            target_score |-> 128]} :
          /\ pc = s.pc /\ board = s.board /\ score = s.score
          /\ best_score = s.best_score /\ target_score = s.target_score

PlayStep(op, args) ==
    /\ isr = "idle" /\ nOps < MaxPlayOps
    /\ nOps' = nOps + 1
    /\ call' = [op |-> op, args |-> args, ret |-> 0, from |-> cursor,
                shown |-> IF op = "restartgame" THEN FALSE ELSE call.shown]
    /\ UNCHANGED <<IFlag, isr, irq_no, tickback, idtVars, timerVars, bufVars, kbdLocals,
                   accepted, popped, dropped, overwrote, nTimer, nKbd, nUnknown, acks, logs,
                   cbLog, cbWho>>

\* restartgame: ... up to the game loop
GameRestartgame ==
    /\ pc = "restartgame"
    /\ \E t \in {128, 2048}, r1 \in RandPairs, r2 \in RandPairs :   \* two of the five modes
          /\ target_score' = t
          /\ board' = add_random(add_random(clear_num, r1[1], r1[2]), r2[1], r2[2])
          /\ PlayStep("restartgame", <<t>>)
    /\ LET cleared == clear_console(Console)
           ui == set_term_color(cleared, FGND_BCYAN).st
           home == set_cursor(ui, 0, 0).st
           white == set_term_color(home, FGND_WHITE).st
       IN SetConsole(hide_cursor(white))
    /\ seconds' = 0
    /\ pc' = "loop"
    /\ UNCHANGED <<pause, score, best_score>>

\* What the switch on ch does to [board, score, best_score, ret].
KeyMove(ch) ==
    IF pause # 0 \/ ch \notin {UP, DOWN, LEFT, RIGHT}
    THEN [board |-> board, score |-> score, best_score |-> best_score, ret |-> 0]
    ELSE IF ch = UP THEN move_up(Game)
    ELSE IF ch = DOWN THEN move_down(Game)
    ELSE IF ch = LEFT THEN move_left(Game)
    ELSE move_right(Game)

\* One pass of the while(1) loop of game_init with readchar returning ch.
GameLoop ==
    /\ pc = "loop"
    /\ \E ch \in {UP, DOWN, LEFT, RIGHT, PAUSE, QUIT, RESTART, NoChar}, r \in RandPairs :
          /\ PlayStep("game_loop", <<ch>>)
          /\ IF ch = RESTART
             THEN /\ pause' = 0
                  /\ score' = 0
                  /\ board' = clear_num
                  /\ pc' = "restartgame"
                  /\ UNCHANGED best_score
             ELSE LET m == KeyMove(ch)
                      b == IF m.ret = 1 THEN add_random(m.board, r[1], r[2]) ELSE m.board
                      goodbye == IF ch = QUIT THEN 1 ELSE 0
                      over == is_over(b)
                  IN /\ pause' = IF ch = PAUSE THEN (IF pause = 0 THEN 1 ELSE 0)
                                 ELSE IF ch = QUIT THEN 0 ELSE pause
                     /\ score' = m.score
                     /\ best_score' = m.best_score
                     /\ IF is_win(b, target_score) = 1
                        THEN board' = b /\ pc' = "game_win"
                        ELSE IF goodbye = 1
                        THEN board' = b /\ pc' = "bye"
                        ELSE IF m.ret = 0
                        THEN board' = over.board
                             /\ pc' = IF over.ret = 1 THEN "game_over" ELSE "loop"
                        ELSE board' = b /\ pc' = "loop"
    /\ IF pc' = "bye"
       THEN SetConsole(set_term_color(clear_console(Console), FGND_BCYAN).st)
       ELSE UNCHANGED consoleVars
    /\ UNCHANGED <<seconds, target_score>>

\* game_win() or game_over() returns: 0 for 'r' (the game starts over with
\* score = 0), 1 for 'q' (the goodbye page).
GamePrompt(at, fn) ==
    /\ pc = at
    /\ \E ret \in {0, 1} :
          /\ PlayStep(fn, <<ret>>)
          /\ IF ret = 0
             THEN /\ score' = 0
                  /\ pc' = "restartgame"
                  /\ SetConsole(set_cursor(set_term_color(Console, FGND_BCYAN).st, 0, 0).st)
             ELSE /\ UNCHANGED score
                  /\ pc' = "bye"
                  /\ SetConsole(set_term_color(clear_console(Console), FGND_BCYAN).st)
    /\ UNCHANGED <<seconds, pause, board, best_score, target_score>>

(***************************************************************************)
(* Specifications                                                          *)
(***************************************************************************)
Install == handler_install(Callbacks)
InstallTick == handler_install({"tick"})
Interrupt == \E v \in Vectors : IrqEnter(v, MaxIrqs)
KbdInterrupt == IrqEnter(IRQ_KBD, MaxKbdIrqs)
KbdInterruptBetweenCalls == pc = "main" /\ IrqEnter(IRQ_KBD, MaxKbdIrqs)
KbdHandlerFew == kbd_handler(FewScancodes)
KbdHandler == kbd_handler(Scancodes)

Boot == load_idt \/ int_init \/ timer_install \/ enable_interrupts
Readchar == ReadcharCall \/ RbCheck \/ RbRead \/ RbWrap \/ RbDec \/ RbStore \/ RcDecode
Writebuf == WbCheck \/ WbStore \/ WbWrap \/ WbInc

IntHandler == IntHandlerTimer \/ IntHandlerKbd \/ IntHandlerUnknown
TimerPath == TimerHandlerInc \/ TimerHandlerCallback \/ IntHandlerTimerAck
KbdPath == KbdHandlerFew \/ Writebuf \/ IntHandlerKbdAck

\* The interrupt core under an application that polls readchar: interrupts of
\* every vector preempt it anywhere.
Next ==
    \/ Install \/ Boot
    \/ Readchar
    \/ Interrupt \/ IntHandler \/ TimerPath \/ KbdPath

Spec == Init /\ [][Next]_vars

\* The interrupt core under an application that draws on the console.
NextDraw ==
    \/ Install \/ Boot
    \/ AppSetCursor \/ AppPutbyte
    \/ Interrupt \/ IntHandler \/ TimerPath \/ KbdPath

SpecDraw == Init /\ [][NextDraw]_vars

\* The keyboard pipeline: keyboard interrupts preempt readchar anywhere.
NextKbd ==
    \/ InstallTick \/ Boot
    \/ Readchar
    \/ KbdInterrupt \/ IntHandlerKbd \/ KbdHandler \/ Writebuf \/ IntHandlerKbdAck

SpecKbd == Init /\ [][NextKbd]_vars

\* The keyboard pipeline used sequentially: interrupts are taken between
\* readchar calls only.
NextSeq ==
    \/ InstallTick \/ Boot
    \/ Readchar
    \/ KbdInterruptBetweenCalls \/ IntHandlerKbd \/ KbdHandler \/ Writebuf \/ IntHandlerKbdAck

SpecSeq == Init /\ [][NextSeq]_vars

\* The console driver called from the application, no interrupt in between.
NextConsole ==
    CallSetCursor \/ CallSetTermColor \/ CallPutbyte \/ CallHideCursor \/ CallShowCursor

SpecConsole == Init /\ [][NextConsole]_vars

\* Every operation of the console driver, in sequences of up to MaxScreenOps.
NextScreen ==
    \/ ScreenSetCursor \/ ScreenSetTermColor \/ ScreenPutbyte \/ ScreenPutbytes
    \/ ScreenHideCursor \/ ScreenShowCursor \/ ScreenClear \/ ScreenScroll \/ ScreenDrawChar

SpecScreen == Init /\ [][NextScreen]_vars

\* The timer subsystem: installations with any callback, repeated, and timer
\* interrupts, enough of them for timer_ticks to wrap around.
InstallAny == handler_install(Callbacks3)
TimerInterrupt == IrqEnter(IRQ_TIMER, MaxTimerIrqs)

NextTimer ==
    \/ InstallAny \/ Boot \/ InstallAgain
    \/ TimerInterrupt \/ IntHandlerTimer \/ TimerPath

SpecTimer == Init /\ [][NextTimer]_vars

\* The game: installation, then the game loop, which polls readchar and starts
\* the game over at restartgame, under interrupts of every vector.
NextGame ==
    \/ InstallTick \/ Boot
    \/ restartgame \/ Readchar
    \/ Interrupt \/ IntHandler \/ TimerPath \/ KbdPath

SpecGame == Init /\ [][NextGame]_vars

\* The keyboard pipeline under the scheduling the code has: the application
\* polls readchar in an endless loop (game.c:485-517), a started interrupt
\* handler runs to its iret, and keyboard interrupts arrive or not at will, up
\* to MaxLiveIrqs of them.
KbdIsr == IntHandlerKbd \/ KbdHandlerFew \/ Writebuf \/ IntHandlerKbdAck

NextKbdLive ==
    \/ InstallTick \/ Boot
    \/ Readchar
    \/ IrqEnter(IRQ_KBD, MaxLiveIrqs) \/ KbdIsr

SpecKbdLive ==
    /\ Init /\ [][NextKbdLive]_vars
    /\ WF_vars(InstallTick \/ Boot)
    /\ WF_vars(Readchar)
    /\ WF_vars(KbdIsr)

\* The board functions of the game, called on boards of every kind.
NextBoard ==
    \/ CallMoveArray \/ CallRotate \/ CallIsOver
    \/ CallMoveUp \/ CallMoveDown \/ CallMoveLeft \/ CallMoveRight

SpecBoard == InitBoard /\ [][NextBoard]_vars

\* The game played: starts, moves, pauses, restarts, wins and game-overs.
NextPlay ==
    \/ GameRestartgame \/ GameLoop
    \/ GamePrompt("game_win", "game_win") \/ GamePrompt("game_over", "game_over")

SpecPlay == InitPlay /\ [][NextPlay]_vars


(***************************************************************************)
(* Properties                                                              *)
(***************************************************************************)
AtRest == pc = "main" /\ isr = "idle"
Unread == Len(accepted) - Len(popped)
IsPrefix(p, q) == Len(p) <= Len(q) /\ p = SubSeq(q, 1, Len(p))
\* the bytes buf holds, oldest first, as buf_sz, tail and buf describe them
Ring == [i \in 1..buf_sz |-> ToU8(buf[(tail + i - 1) % MAX_BUF_SZ])]

\* C1: with the keyboard ISR preempting readbuf between any two of its memory
\* accesses, 0 <= buf_sz <= MAX_BUF_SZ always, and head (tail) is a valid index
\* of buf except between writebuf's (readbuf's) increment and its wraparound test.
C1_BufferBounds ==
    /\ 0 <= buf_sz /\ buf_sz <= MAX_BUF_SZ
    /\ (isr # "wb_wrap" => (0 <= head /\ head < MAX_BUF_SZ))
    /\ (pc # "rb_wrap" => (0 <= tail /\ tail < MAX_BUF_SZ))

\* C1 witness: the ISR runs while readbuf is between the load and the store of
\* buf_sz--, after head and tail have both wrapped around.
C1_Witness ==
    /\ pc = "rb_store" /\ isr = "wb_inc"
    /\ Len(accepted) > MAX_BUF_SZ /\ Len(popped) > MAX_BUF_SZ

\* C2: under every interleaving the bytes popped are exactly the bytes accepted,
\* in order and once each; buf_sz equals the number of accepted-but-unread bytes
\* whenever no operation is running; writebuf never overwrites an unread slot.
C2_ExactlyOnceFifo ==
    /\ IsPrefix(popped, accepted)
    /\ (AtRest => buf_sz = Unread)
    /\ ~overwrote

\* C3: used sequentially, a push into a full buffer leaves buf, head, tail and
\* buf_sz unchanged and accepts nothing; the bytes popped are the accepted bytes
\* in FIFO order, across wraparound, and buf_sz counts the unread ones (so after
\* popping the N bytes of a full buffer buf_sz is 0).
C3_FifoState ==
    AtRest => /\ buf_sz = Unread
              /\ IsPrefix(popped, accepted)
              /\ Ring = SubSeq(accepted, Len(popped) + 1, Len(accepted))

C3_DropStep ==
    /\ (isr = "wb_check" /\ buf_sz = MAX_BUF_SZ)
         => (isr' = "kbd_ack" /\ dropped' = dropped + 1 /\ UNCHANGED <<bufVars, accepted>>)
    /\ isr = "kbd_ack" => UNCHANGED <<bufVars, accepted>>

C3_FullDropThenFifo == []C3_FifoState /\ [][C3_DropStep]_vars

\* C3 witness: more than N bytes went through the buffer (head and tail wrapped
\* in the middle of the run), a push was dropped, everything accepted was popped.
C3_Witness ==
    /\ AtRest /\ dropped >= 1 /\ buf_sz = 0
    /\ Len(popped) > MAX_BUF_SZ /\ Len(popped) = Len(accepted)
    /\ head = tail /\ head # 0

\* C4: no step of an interrupt handler changes the console state (cursor,
\* colour, grid, hardware cursor).
C4_ConsoleOnlyByApplication == [][isr # "idle" => UNCHANGED consoleVars]_vars

\* the step in which readchar decodes and returns
RcDecodes == isr = "idle" /\ pc = "rc_decode" /\ pc' = "main"

\* C5: a readchar call pops at most one byte; it returns the character of the
\* key only for a press (high bit clear) that completes a sequence and has a
\* character, and -1 otherwise: nothing popped, the first byte of an augmented
\* key, a release, or a key without character.
C5_ReturnStep ==
    /\ Len(popped') <= Len(popped) + 1
    /\ (isr = "idle" /\ pc # "main" /\ rb_popped) => popped' = popped
    /\ RcDecodes =>
         LET c == KeyChar(kh_state = "ext", rb_ch % 128)
             press == rb_popped /\ rb_ch # KH_EXT /\ rb_ch < 128 /\ c # NoChar
         IN /\ press => rc_ret' = c
            /\ ~press => rc_ret' = NoChar

C5_ReadcharSentinel == [][C5_ReturnStep]_vars

\* C5 witness: readchar returned the character of a two-byte key (0xE0 0x1C).
C5_Witness ==
    /\ AtRest /\ rc_ret = 10 /\ Len(popped) >= 2
    /\ popped[Len(popped) - 1] = KH_EXT /\ popped[Len(popped)] = 28

\* C6: a readchar call that pops nothing leaves the decode state and head, tail,
\* buf_sz unchanged.
C6_EmptyPollKeepsDecodeState ==
    [][(RcDecodes /\ ~rb_popped) => UNCHANGED <<kh_state, head, tail, buf_sz>>]_vars

InService == isr \notin {"idle", "int_handler"}

\* C7: every timer interrupt increments timer_ticks by exactly 1 and then, if a
\* callback is registered, invokes it once with the new value, before int_handler
\* acknowledges; no other interrupt changes the counter or invokes the callback.
C7_TickState ==
    /\ timer_ticks = (nTimer - (IF isr = "timer_handler" THEN 1 ELSE 0)) % TickModulus
    /\ Len(cbLog) = IF timer_callback = "NULL" THEN 0
                    ELSE nTimer - (IF isr \in {"timer_handler", "timer_callback"} THEN 1 ELSE 0)
    /\ \A i \in 1..Len(cbLog) : cbLog[i] = i % TickModulus

C7_OtherVectorsStep ==
    (isr # "idle" /\ irq_no # IRQ_TIMER) => UNCHANGED <<timer_ticks, cbLog>>

C7_TickPerTimerInterrupt == []C7_TickState /\ [][C7_OtherVectorsStep]_vars

\* C7 witness: the second timer interrupt, a keyboard interrupt in between, the
\* callback has returned and the acknowledge is still to come.
C7_Witness ==
    /\ isr = "timer_ack" /\ nTimer = 2 /\ nKbd >= 1
    /\ timer_ticks = 2 /\ cbLog = <<1, 2>>

\* C8: the acknowledges written equal the timer and keyboard interrupts whose
\* device handler has returned to int_handler and been acknowledged: one per
\* serviced interrupt, written after the handler, none for other vectors.
C8_AckOncePerServiced ==
    acks = nTimer + nKbd - (IF InService THEN 1 ELSE 0)

\* C8 witness: one interrupt of each kind has been handled.
C8_Witness ==
    /\ isr = "idle" /\ nTimer = 1 /\ nKbd = 1 /\ nUnknown = 1 /\ acks = 2

\* C9: for a vector other than the timer's and the keyboard's, int_handler logs
\* one diagnostic, writes no acknowledge, calls no handler and no callback,
\* returns, and leaves timer_ticks and buf, head, tail, buf_sz unchanged.
C9_UnknownStep ==
    (isr = "int_handler" /\ irq_no # IRQ_TIMER /\ irq_no # IRQ_KBD)
      => /\ logs' = logs + 1
         /\ acks' = acks
         /\ isr' = "idle" /\ IFlag' /\ pc' = pc
         /\ UNCHANGED <<timer_ticks, cbLog, bufVars, nTimer, nKbd, accepted, dropped>>

C9_UnknownVector == [](logs = nUnknown) /\ [][C9_UnknownStep]_vars

\* C9 witness: an unknown vector was handled with a byte in the buffer and a
\* tick counted.
C9_Witness ==
    /\ isr = "idle" /\ nUnknown = 1 /\ logs = 1 /\ buf_sz = 1 /\ timer_ticks = 1

GatesSet == idt[IRQ_TIMER].present = 1 /\ idt[IRQ_KBD].present = 1
TimerArmed == pit = timer_init /\ timer_callback = tickback
InsideInstall == pc \in {"load_idt", "int_init", "timer_install"}

\* C10 as claimed: gates, then lidt, then the timer, then interrupt delivery,
\* which is enabled when handler_install returns.
C10_ClaimedOrder ==
    /\ idtr.loaded => GatesSet
    /\ pit = timer_init => idtr.loaded
    /\ pc = "installed" => IFlag

\* C10 amended: handler_install loads the table register first, then programs
\* the two gates, then arms the timer; it leaves interrupt delivery disabled,
\* also on return; the caller enables it afterwards.
C10_InstallOrder ==
    /\ GatesSet => idtr.loaded
    /\ pit = timer_init => GatesSet
    /\ pc \in {"boot", "load_idt"} => ~idtr.loaded /\ ~GatesSet
    /\ pc = "int_init" => idtr.loaded /\ ~GatesSet /\ pit # timer_init
    /\ pc = "timer_install" => GatesSet /\ pit # timer_init
    /\ (InsideInstall \/ pc \in {"boot", "installed"}) => ~IFlag
    /\ pc \in {"installed", "main"} => idtr.loaded /\ GatesSet /\ TimerArmed
    /\ (IFlag \/ isr # "idle") => pc \notin {"boot", "installed"} /\ ~InsideInstall

\* C10 witness: handler_install(tick) has returned, delivery not yet enabled.
C10_Witness ==
    /\ pc = "installed" /\ timer_callback = "tick" /\ ~IFlag
    /\ idtr.loaded /\ GatesSet /\ pit = timer_init

\* C11: handler_install is called once, from the start of game_init, and the
\* program never comes back to that call (a restart goes to restartgame);
\* interrupt delivery is off until it has returned, so whenever delivery is on
\* or an interrupt is in service both gates are present, the timer is
\* programmed and the callback is stored.
C11_State ==
    (IFlag \/ isr # "idle")
       => /\ pc \notin {"boot", "installed"} /\ ~InsideInstall
          /\ idtr.loaded /\ GatesSet /\ TimerArmed

C11_Step ==
    /\ pc # "boot" => pc' # "boot"
    /\ pc' = "load_idt" => pc \in {"boot", "load_idt"}

C11_InstallOnceBeforeInterrupts == []C11_State /\ [][C11_Step]_vars

\* C11 witness: the game was restarted after interrupts were serviced, and an
\* interrupt is in service again.
C11_Witness ==
    /\ call.op = "restartgame" /\ isr = "timer_ack" /\ nTimer >= 2
    /\ timer_callback = "tick" /\ GatesSet

GateEntry(g) == g.high_16_31 * 65536 + g.low_0_15

\* C12: once int_init has run, the gates marked present are exactly the timer's
\* and the keyboard's; each is a 32-bit interrupt gate, DPL 0, kernel code
\* selector, whose two offset halves reassemble to the address of its asm
\* thunk; no step outside int_init changes the table.
C12_State ==
    pc \notin {"boot", "load_idt", "int_init"}
      => \A v \in Vectors :
            IF v \in {IRQ_TIMER, IRQ_KBD}
            THEN /\ idt[v].present = 1 /\ idt[v].type = 14 /\ idt[v].dpl = 0
                 /\ idt[v].selector = SEGSEL_KERNEL_CS
                 /\ GateEntry(idt[v]) = AsmHandler[v]
            ELSE idt[v].present = 0

C12_Step == pc # "int_init" => idt' = idt

C12_GateTable == []C12_State /\ [][C12_Step]_vars

\* C12 witness: timer and keyboard interrupts were serviced, readchar popped a
\* byte and the game was restarted; the table is still as installed.
C12_Witness ==
    /\ AtRest /\ call.op = "restartgame" /\ nTimer >= 1 /\ nKbd >= 1 /\ Len(popped) >= 1
    /\ GateEntry(idt[IRQ_KBD]) = AsmHandler[IRQ_KBD]

\* C13: once an installation has returned, the registered callback is the one
\* given to the latest installation; a timer interrupt invokes the registered
\* callback once, with the counter's value, and no other; with no callback it
\* invokes nothing and still counts the tick; installing leaves the counter alone.
C13_State == pc \in {"installed", "main"} => timer_callback = tickback

C13_Step ==
    /\ isr = "timer_handler" => timer_ticks' = (timer_ticks + 1) % TickModulus
    /\ isr # "timer_handler" => timer_ticks' = timer_ticks
    /\ isr = "timer_callback" =>
          IF timer_callback = "NULL"
          THEN UNCHANGED <<cbWho, cbLog>> /\ isr' = "timer_ack"
          ELSE cbWho' = Append(cbWho, timer_callback) /\ cbLog' = Append(cbLog, timer_ticks)
    /\ isr # "timer_callback" => UNCHANGED <<cbWho, cbLog>>

C13_ReinstallReplaces == []C13_State /\ [][C13_Step]_vars

\* C13 witness: tick was installed and invoked, then probe was installed over
\* it, and from its first invocation on only probe was invoked.
C13_Witness ==
    /\ AtRest /\ timer_callback = "probe" /\ Len(cbWho) >= 2
    /\ cbWho[1] = "tick" /\ cbWho[Len(cbWho)] = "probe"
    /\ \A i \in 1..Len(cbWho) : cbWho[i] = "probe" => \A j \in i..Len(cbWho) : cbWho[j] = "probe"

\* C14: timer_ticks is strictly greater after every timer interrupt than before,
\* and every value passed to the callback is greater than all passed earlier.
C14_StrictlyIncreasing ==
    /\ [](\A i \in 1..Len(cbLog) : \A j \in 1..Len(cbLog) : i < j => cbLog[i] < cbLog[j])
    /\ [][isr = "timer_handler" => timer_ticks' > timer_ticks]_vars

\* the step is a call of console operation op
Called(op) == nOps' = nOps + 1 /\ call'.op = op
ValidPos(r, c) == 0 <= r /\ r < CONSOLE_HEIGHT /\ 0 <= c /\ c < CONSOLE_WIDTH
\* the character and the attribute of cell (r, c) of grid g
CellCh(g, r, c) == g[(r * CONSOLE_WIDTH + c) * 2]
CellAt(g, r, c) == g[(r * CONSOLE_WIDTH + c) * 2 + 1]
Cells == (0..(CONSOLE_HEIGHT - 1)) \X (0..(CONSOLE_WIDTH - 1))

\* C15: set_cursor with a position inside the grid returns 0, get_cursor then
\* returns that position, and grid and colour are unchanged.
C15_Step ==
    (Called("set_cursor") /\ ValidPos(call'.args[1], call'.args[2]))
      => /\ call'.ret = 0
         /\ get_cursor(Console') = call'.args
         /\ vmem' = vmem /\ get_term_color(Console') = get_term_color(Console)

C15_SetCursorRoundTrip == [][C15_Step]_vars

\* C15 witness: after a colour change and a character drawn, set_cursor moved
\* the cursor to the last cell of the grid.
C15_Witness ==
    /\ call.op = "set_cursor" /\ call.ret = 0
    /\ call.args = <<CONSOLE_HEIGHT - 1, CONSOLE_WIDTH - 1>> /\ call.from # cursor
    /\ cursor_color = FGND_BCYAN /\ CellCh(vmem, 0, 0) = 72

\* C16: set_cursor with a row or a column outside the grid returns a negative
\* value and changes nothing: cursor, colour, grid, hardware cursor register.
C16_Step ==
    (Called("set_cursor") /\ ~ValidPos(call'.args[1], call'.args[2]))
      => /\ call'.ret < 0
         /\ UNCHANGED consoleVars
         /\ get_cursor(Console') = get_cursor(Console)

C16_SetCursorRejects == [][C16_Step]_vars

\* C16 witness: only the column was out of range, with the cursor away from
\* the origin; it stayed where it was.
C16_Witness ==
    /\ call.op = "set_cursor" /\ call.ret = -1
    /\ call.args = <<0, CONSOLE_WIDTH>>
    /\ cursor = call.from /\ cursor.row = CONSOLE_HEIGHT - 1 /\ cursor.col > 0

\* C17: set_term_color(c) with 0 <= c < 256 returns 0 and get_term_color gives
\* c; otherwise it returns a negative value and the colour stays; cursor and
\* grid are unchanged either way.
C17_Step ==
    Called("set_term_color")
      => LET c == call'.args[1]
         IN /\ IF 0 <= c /\ c < 256
               THEN call'.ret = 0 /\ get_term_color(Console') = c
               ELSE call'.ret < 0 /\ get_term_color(Console') = get_term_color(Console)
            /\ cursor' = cursor /\ vmem' = vmem

C17_SetTermColor == [][C17_Step]_vars

\* C17 witness: 255 was accepted, then 256 was refused and 255 stayed.
C17_Witness ==
    /\ call.op = "set_term_color" /\ call.args = <<256>> /\ call.ret = -1
    /\ cursor_color = 255

\* C18: putbyte('\r') moves the cursor to column 0 of its row and changes no cell.
C18_CarriageReturn ==
    [][(Called("putbyte") /\ call'.args = <<13>>)
         => (cursor' = [row |-> cursor.row, col |-> 0] /\ vmem' = vmem)]_vars

\* the grid g scrolled by one row, the new last row blank in colour color
Scrolled(g, color) ==
    [i \in 0..(CONSOLE_SZ * 2 - 1) |->
       IF i < (CONSOLE_SZ - CONSOLE_WIDTH) * 2 THEN g[i + CONSOLE_WIDTH * 2]
       ELSE IF i % 2 = 0 THEN 32 ELSE color]

\* C19: putbyte('\n') above the last row moves the cursor to column 0 of the
\* next row and leaves the grid; on the last row the grid scrolls once (row 0
\* lost, the others one up, the last row blank in the current colour) and the
\* cursor goes to column 0 of the last row.
C19_Step ==
    (Called("putbyte") /\ call'.args = <<10>>)
      => IF cursor.row < CONSOLE_HEIGHT - 1
         THEN cursor' = [row |-> cursor.row + 1, col |-> 0] /\ vmem' = vmem
         ELSE /\ cursor' = [row |-> CONSOLE_HEIGHT - 1, col |-> 0]
              /\ \A rc \in Cells :
                    IF rc[1] < CONSOLE_HEIGHT - 1
                    THEN /\ CellCh(vmem', rc[1], rc[2]) = CellCh(vmem, rc[1] + 1, rc[2])
                         /\ CellAt(vmem', rc[1], rc[2]) = CellAt(vmem, rc[1] + 1, rc[2])
                    ELSE /\ CellCh(vmem', rc[1], rc[2]) = 32
                         /\ CellAt(vmem', rc[1], rc[2]) = cursor_color

C19_Newline == [][C19_Step]_vars

\* C19 witness: a character drawn at the start of the last row was moved one
\* row up by the newline that followed it.
C19_Witness ==
    /\ call.op = "putbyte" /\ call.args = <<10>>
    /\ call.from = [row |-> CONSOLE_HEIGHT - 1, col |-> 1]
    /\ cursor = [row |-> CONSOLE_HEIGHT - 1, col |-> 0]
    /\ CellCh(vmem, CONSOLE_HEIGHT - 2, 0) = 72 /\ CellCh(vmem, CONSOLE_HEIGHT - 1, 0) = 32

\* C20: putbyte of any other byte writes the byte and the current colour into
\* the cell under the cursor and into no other, then moves the cursor to the
\* next cell in row-major order; from the last cell the grid then scrolls once
\* and the cursor goes to column 0 of the last row.
C20_Step ==
    (Called("putbyte") /\ call'.args[1] \notin {10, 13, 8})
      => LET pos == cursor.row * CONSOLE_WIDTH + cursor.col
             written == [vmem EXCEPT ![pos * 2] = call'.args[1],
                                     ![pos * 2 + 1] = cursor_color]
         IN IF pos < CONSOLE_SZ - 1
            THEN /\ vmem' = written
                 /\ cursor' = IF cursor.col = CONSOLE_WIDTH - 1
                              THEN [row |-> cursor.row + 1, col |-> 0]
                              ELSE [row |-> cursor.row, col |-> cursor.col + 1]
            ELSE /\ vmem' = Scrolled(written, cursor_color)
                 /\ cursor' = [row |-> CONSOLE_HEIGHT - 1, col |-> 0]
                 /\ CellCh(vmem', CONSOLE_HEIGHT - 2, CONSOLE_WIDTH - 1) = call'.args[1]

C20_PlainByte == [][C20_Step]_vars

\* C20 witness: a byte was written in a new colour into the last cell of the
\* grid, which scrolled.
C20_Witness ==
    /\ call.op = "putbyte" /\ call.args = <<200>>
    /\ call.from = [row |-> CONSOLE_HEIGHT - 1, col |-> CONSOLE_WIDTH - 1]
    /\ cursor = [row |-> CONSOLE_HEIGHT - 1, col |-> 0]
    /\ CellCh(vmem, CONSOLE_HEIGHT - 2, CONSOLE_WIDTH - 1) = 200
    /\ CellAt(vmem, CONSOLE_HEIGHT - 2, CONSOLE_WIDTH - 1) = FGND_BCYAN

\* C21: putbyte('\b') with the cursor at linear position p moves it to
\* max(p - 1, 0) and sets that cell, and no other, to a blank in the current
\* colour; nothing scrolls.
C21_Step ==
    (Called("putbyte") /\ call'.args = <<8>>)
      => LET p == cursor.row * CONSOLE_WIDTH + cursor.col
             q == IF p > 0 THEN p - 1 ELSE 0
         IN /\ cursor' = [row |-> q \div CONSOLE_WIDTH, col |-> q % CONSOLE_WIDTH]
            /\ vmem' = [vmem EXCEPT ![q * 2] = 32, ![q * 2 + 1] = cursor_color]

C21_Backspace == [][C21_Step]_vars

\* C21 witness: a backspace from column 0 of the last row, in a new colour,
\* blanked the last cell of the row above.
C21_Witness ==
    /\ call.op = "putbyte" /\ call.args = <<8>>
    /\ call.from = [row |-> CONSOLE_HEIGHT - 1, col |-> 0]
    /\ cursor = [row |-> CONSOLE_HEIGHT - 2, col |-> CONSOLE_WIDTH - 1]
    /\ CellCh(vmem, CONSOLE_HEIGHT - 2, CONSOLE_WIDTH - 1) = 32
    /\ CellAt(vmem, CONSOLE_HEIGHT - 2, CONSOLE_WIDTH - 1) = FGND_BCYAN

\* putbyte applied to s[1], ..., s[n] in that order
RECURSIVE PutEach(_, _, _)
PutEach(st, s, n) == IF n = 0 THEN st ELSE putbyte(PutEach(st, s, n - 1), s[n])

Printable(b) == b \notin {10, 13, 8}

\* C22: putbytes(s, len) with len > 0 and s not null has the effect of putbyte
\* on s[0], ..., s[len-1] in order; len printable bytes that stay inside the
\* grid fill len consecutive cells from the cursor in the current colour and
\* advance the cursor by len.
C22_Step ==
    (Called("putbytes") /\ ~call'.args[1].null /\ call'.args[2] > 0)
      => LET str == call'.args[1].bytes
             len == call'.args[2]
             pos == cursor.row * CONSOLE_WIDTH + cursor.col
         IN /\ Console' = PutEach(Console, str, len)
            /\ ((\A i \in 1..len : Printable(str[i])) /\ pos + len < CONSOLE_SZ)
                  => /\ \A i \in 1..len :
                          /\ vmem'[(pos + i - 1) * 2] = str[i]
                          /\ vmem'[(pos + i - 1) * 2 + 1] = cursor_color
                     /\ \A j \in 0..(CONSOLE_SZ - 1) :
                          (j < pos \/ j >= pos + len)
                            => vmem'[j * 2] = vmem[j * 2] /\ vmem'[j * 2 + 1] = vmem[j * 2 + 1]
                     /\ cursor' = [row |-> (pos + len) \div CONSOLE_WIDTH,
                                   col |-> (pos + len) % CONSOLE_WIDTH]

C22_PutbytesIsPutbyteSequence == [][C22_Step]_vars

\* C22 witness: putbytes("Hi", 2) at (0, 0) in colour FGND_BCYAN.
C22_Witness ==
    /\ call.op = "putbytes" /\ call.args = <<[null |-> FALSE, bytes |-> HiText], 2>>
    /\ call.from = [row |-> 0, col |-> 0] /\ cursor = [row |-> 0, col |-> 2]
    /\ CellCh(vmem, 0, 0) = 72 /\ CellAt(vmem, 0, 0) = FGND_BCYAN
    /\ CellCh(vmem, 0, 1) = 105 /\ CellAt(vmem, 0, 1) = FGND_BCYAN

\* C23: putbytes(s, len) with len <= 0 or s null changes nothing: grid, cursor,
\* colour, hardware cursor register.
C23_PutbytesNoOp ==
    [][(Called("putbytes") /\ (call'.args[2] <= 0 \/ call'.args[1].null))
         => UNCHANGED consoleVars]_vars

\* C24: after every putbyte made while the cursor is shown (no hide_cursor
\* yet, or a show_cursor since the last one), the hardware cursor register
\* holds the linear position of the logical cursor.
C24_HardwareCursorFollows ==
    [][(Called("putbyte") /\ call.shown)
         => crtc' = CrtcAt(cursor'.row * CONSOLE_WIDTH + cursor'.col)]_vars

\* C25: from hide_cursor until the next show_cursor the hardware cursor
\* register keeps the off-grid position CONSOLE_SZ + 1, whatever is called.
C25_HiddenStaysHidden ==
    ~call.shown => (crtc = CrtcAt(CONSOLE_SZ + 1) /\ crtc.msb * 256 + crtc.lsb >= CONSOLE_SZ)

\* C25 witness: after hide_cursor a cell was drawn and a putbyte moved the
\* logical cursor; the register is still off the grid.
C25_Witness ==
    /\ ~call.shown /\ call.op = "putbyte" /\ cursor # call.from
    /\ CellCh(vmem, CONSOLE_HEIGHT - 1, CONSOLE_WIDTH - 1) = 88
    /\ crtc = CrtcAt(CONSOLE_SZ + 1)

\* C26: console_scroll moves every row but the first one row up, character
\* and attribute, blanks the last row in the current colour, leaves cursor and
\* colour alone and writes inside the grid only.
C26_Step ==
    Called("console_scroll")
      => /\ \A rc \in Cells :
               IF rc[1] < CONSOLE_HEIGHT - 1
               THEN /\ CellCh(vmem', rc[1], rc[2]) = CellCh(vmem, rc[1] + 1, rc[2])
                    /\ CellAt(vmem', rc[1], rc[2]) = CellAt(vmem, rc[1] + 1, rc[2])
               ELSE /\ CellCh(vmem', rc[1], rc[2]) = 32
                    /\ CellAt(vmem', rc[1], rc[2]) = cursor_color
         /\ DOMAIN vmem' = 0..(CONSOLE_SZ * 2 - 1)
         /\ UNCHANGED <<cursor, cursor_color>>

C26_Scroll == [][C26_Step]_vars

\* C26 witness: a character drawn into the last cell was scrolled one row up,
\* and the new last row is blank in the colour selected before.
C26_Witness ==
    /\ call.op = "console_scroll" /\ cursor_color = FGND_BCYAN
    /\ CellCh(vmem, CONSOLE_HEIGHT - 2, CONSOLE_WIDTH - 1) = 88
    /\ \A c \in 0..(CONSOLE_WIDTH - 1) :
          CellCh(vmem, CONSOLE_HEIGHT - 1, c) = 32 /\ CellAt(vmem, CONSOLE_HEIGHT - 1, c) = FGND_BCYAN

\* C27: clear_console blanks every cell in the current colour, puts the cursor
\* at (0, 0) and leaves colour and hidden/shown state; the hardware cursor
\* register is untouched if the cursor was hidden and holds 0 if it was shown.
C27_Step ==
    Called("clear_console")
      => /\ \A rc \in Cells : CellCh(vmem', rc[1], rc[2]) = 32
                               /\ CellAt(vmem', rc[1], rc[2]) = cursor_color
         /\ cursor' = [row |-> 0, col |-> 0]
         /\ UNCHANGED <<cursor_color, cursor_hidden>>
         /\ IF call.shown THEN crtc' = CrtcAt(0) ELSE crtc' = crtc

C27_Clear == [][C27_Step]_vars

\* C28 as claimed: a valid draw_char sets the cell to {ch, color} and get_char
\* returns ch; an invalid one does nothing; cursor, colour, hardware cursor
\* register and the other cells are unchanged.
C28_ClaimedStep ==
    Called("draw_char")
      => LET r == call'.args[1]
             c == call'.args[2]
             ch == call'.args[3]
             color == call'.args[4]
         IN /\ IF ValidPos(r, c) /\ 0 <= color /\ color < 256
               THEN /\ vmem' = [vmem EXCEPT ![(r * CONSOLE_WIDTH + c) * 2] = ch,
                                            ![(r * CONSOLE_WIDTH + c) * 2 + 1] = color]
                    /\ get_char(Console', r, c) = ch
               ELSE vmem' = vmem
            /\ UNCHANGED <<cursor, cursor_hidden, cursor_color, crtc>>

C28_DrawCharClaimed == [][C28_ClaimedStep]_vars

\* C28 amended: the cell gets the low byte of ch and get_char returns that byte
\* as a char, which is ch itself when ch is in -128..127.
C28_Step ==
    Called("draw_char")
      => LET r == call'.args[1]
             c == call'.args[2]
             ch == call'.args[3]
             color == call'.args[4]
         IN /\ IF ValidPos(r, c) /\ 0 <= color /\ color < 256
               THEN /\ vmem' = [vmem EXCEPT ![(r * CONSOLE_WIDTH + c) * 2] = ch % 256,
                                            ![(r * CONSOLE_WIDTH + c) * 2 + 1] = color]
                    /\ get_char(Console', r, c) =
                         (IF ch % 256 < 128 THEN ch % 256 ELSE (ch % 256) - 256)
                    /\ (-128 <= ch /\ ch <= 127) => get_char(Console', r, c) = ch
               ELSE vmem' = vmem
            /\ UNCHANGED <<cursor, cursor_hidden, cursor_color, crtc>>

C28_DrawChar == [][C28_Step]_vars

\* C28 witness: the character 200 was drawn with colour 255 at (0, 1), away
\* from the cursor; get_char reads it back as -56.
C28_Witness ==
    /\ call.op = "draw_char" /\ call.args = <<0, 1, 200, 255>>
    /\ CellCh(vmem, 0, 1) = 200 /\ CellAt(vmem, 0, 1) = 255
    /\ get_char(Console, 0, 1) = -56
    /\ cursor = [row |-> CONSOLE_HEIGHT - 1, col |-> 1] /\ cursor_color = FGND_BCYAN

\* C29: in every state reachable by console calls with any arguments the
\* cursor is inside the grid and the colour is in 0..255.
C29_CursorAndColourInRange ==
    /\ ValidPos(cursor.row, cursor.col)
    /\ 0 <= cursor_color /\ cursor_color < 256

\* C29 witness: after an invalid set_cursor or colour was refused and the
\* grid scrolled under a newline on the last row.
C29_Witness ==
    /\ nOps = MaxScreenOps /\ call.op = "putbyte" /\ call.args = <<10>>
    /\ call.from.row = CONSOLE_HEIGHT - 1 /\ cursor = [row |-> CONSOLE_HEIGHT - 1, col |-> 0]
    /\ cursor_color = FGND_BCYAN /\ CellCh(vmem, CONSOLE_HEIGHT - 2, 1) = 72

\* C30: while the cursor is shown, a successful set_cursor(row, col) leaves
\* the hardware cursor register at row * CONSOLE_WIDTH + col, and show_cursor
\* changes nothing.
C30_Step ==
    /\ (Called("set_cursor") /\ call'.ret = 0 /\ call.shown)
          => crtc' = CrtcAt(call'.args[1] * CONSOLE_WIDTH + call'.args[2])
    /\ (Called("show_cursor") /\ call.shown) => UNCHANGED consoleVars

C30_NoStaleHardwareCursor == [][C30_Step]_vars

\* C35: the limit loaded with the table base is the size of the whole gate
\* table in bytes minus one, so every descriptor lies within the limit.
C35_LimitCoversTable ==
    idtr.loaded
      => /\ idtr.lim = IDT_ENTS * SizeofGatedp - 1
         /\ \A n \in 0..(IDT_ENTS - 1) : n * SizeofGatedp + (SizeofGatedp - 1) <= idtr.lim

\* C31: under an application that polls readchar for ever, with keyboard
\* interrupts preempting it anywhere, every byte accepted by writebuf is
\* eventually popped by readbuf, and once interrupts have stopped the buffer
\* ends up empty for good: buf_sz = 0 with head = tail.
C31_KeyboardPipelineLive ==
    /\ \A n \in 1..MaxLiveIrqs : (Len(accepted) >= n) ~> (Len(popped) >= n)
    /\ <>[](buf_sz = 0 /\ head = tail)

\* The non-zero tiles of a row, in index order.
RECURSIVE TilesFrom(_, _)
TilesFrom(row, y) ==
    IF y >= SIZE THEN <<>>
    ELSE (IF row[y] # 0 THEN <<row[y]>> ELSE <<>>) \o TilesFrom(row, y + 1)

\* Equal neighbours merged pairwise from the front, no tile merging twice.
RECURSIVE MergePairs(_)
MergePairs(s) ==
    IF Len(s) < 2 THEN s
    ELSE IF s[1] = s[2] THEN <<s[1] + s[2]>> \o MergePairs(SubSeq(s, 3, Len(s)))
    ELSE <<s[1]>> \o MergePairs(Tail(s))

\* The sum of the tiles those merges create.
RECURSIVE MergedSum(_)
MergedSum(s) ==
    IF Len(s) < 2 THEN 0
    ELSE IF s[1] = s[2] THEN s[1] + s[2] + MergedSum(SubSeq(s, 3, Len(s)))
    ELSE MergedSum(Tail(s))

Padded(s) == [y \in 0..(SIZE - 1) |-> IF y < Len(s) THEN s[y + 1] ELSE 0]
RowSum(row) == row[0] + row[1] + row[2] + row[3]
NoGaps(row) == \A y \in 0..(SIZE - 2) : row[y] = 0 => row[y + 1] = 0

\* C32 as claimed: move_array slides the tiles of any row to index 0 without
\* gaps, merging equal neighbours pairwise from index 0, no tile twice; the sum
\* of the row is preserved, score grows by the merged tiles, and it returns 1
\* exactly when the row changed.
C32_ClaimedStep ==
    Called("move_array")
      => LET x == call'.args[1]
             tiles == TilesFrom(board[x], 0)
         IN /\ board'[x] = Padded(MergePairs(tiles))
            /\ NoGaps(board'[x])
            /\ RowSum(board'[x]) = RowSum(board[x])
            /\ score' = score + MergedSum(tiles)
            /\ (call'.ret = 1) <=> (board'[x] # board[x])

C32_Step ==
    Called("move_array")
      => LET x == call'.args[1]
             tiles == TilesFrom(board[x], 0)
             merged == MergePairs(tiles)
             fits == \A k \in 1..Len(merged) : merged[k] < 65536
         IN /\ board'[x] = Padded([k \in 1..Len(merged) |-> merged[k] % 65536])
            /\ fits => /\ board'[x] = Padded(merged)
                       /\ NoGaps(board'[x])
                       /\ RowSum(board'[x]) = RowSum(board[x])
            /\ score' = score + MergedSum(tiles)
            /\ (call'.ret = 1) <=> (board'[x] # board[x])
            /\ \A z \in 0..(SIZE - 1) : z # x => board'[z] = board[z]

RECURSIVE RotatedTimes(_, _)
RotatedTimes(b, k) == IF k = 0 THEN b ELSE RotatedTimes(rotate(b), k - 1)

\* rotations a move makes before its move_up
TurnsBefore(op) == IF op = "move_down" THEN 2 ELSE IF op = "move_left" THEN 1 ELSE 3

\* C33: four rotations restore any board; is_over returns with the board as it
\* was on entry, whatever it returns; move_down, move_left and move_right
\* return with the board in its original orientation: seen through the
\* rotations made before the move_up, the result is the moved board.
C33_Step ==
    /\ RotatedTimes(board, 4) = board
    /\ Called("rotate") => RotatedTimes(board', 3) = board
    /\ Called("is_over") => board' = board /\ call'.ret \in {0, 1}
    /\ \A op \in {"move_down", "move_left", "move_right"} :
          Called(op)
            => LET k == TurnsBefore(op)
                   up == move_up([board |-> RotatedTimes(board, k), score |-> score,
                                  best_score |-> best_score])
               IN /\ RotatedTimes(board', k) = up.board
                  /\ call'.ret = up.ret
                  /\ (call'.ret = 0) => board' = board

C33_RotationsRestore == [][C33_Step]_vars

\* C33 witness: is_over returned 1 on the full board without equal
\* neighbours, the path through its four rotations, and the board is as it was.
C33_Witness ==
    /\ call.op = "is_over" /\ call.ret = 1
    /\ call.args = <<FullBoard>> /\ board = FullBoard

\* C34: in every state of the game, over moves, restarts, wins and
\* game-overs, best_score >= score, and best_score never decreases.
C34_BestScore ==
    /\ [](best_score >= score)
    /\ [][best_score' >= best_score]_vars

\* C34 witness: after a win and a restart the new game has scored, below the
\* best score of the game before.
C34_Witness ==
    /\ pc = "loop" /\ call.op = "game_loop"
    /\ best_score = 768 /\ score = 4

=============================================================================
